---- MODULE Spec2Model ----
(***************************************************************************)
(* Verification model of the code-review-assistant front end:              *)
(*   - APIClient.makeRequest / handleError / categorizeError  (api-client) *)
(*   - APIClient.pollAnalysisStatus and startAnalysisPolling               *)
(*   - ErrorHandler.handleApiError            (accessibility-enhancements) *)
(*   - GeminiClient.analyzeCode / parseAnalysisResponse                    *)
(*   - the report display of app.js (issue order, grades and scores)       *)
(*   - the chunked analysis run (circuit breaker, aggregation) and the     *)
(*     Chunker, which are described by the specification only              *)
(***************************************************************************)
EXTENDS Integers, Sequences, FiniteSets, TLC

(***************************************************************************)
(* Values shared by the HTTP layers                                        *)
(***************************************************************************)

\* HTTP error statuses a server answers with (a representative per class)
Statuses == {401, 403, 404, 408, 429, 500}

\* error.status of an Error that carries no status (undefined)
NoStatus == 0

\* response.headers.get('Retry-After') when the header is absent (null)
NoHeader == -1

\* values of the Retry-After header, in seconds
RetryAfterValues == {NoHeader, 0, 2}

\* bodies of a 2xx answer: a report in one of its statuses, or text that
\* response.json() cannot parse
Bodies == {"processing", "completed", "failed", "unparseable"}

\* what one call of fetch() can produce
FetchOutcomes ==
    [kind : {"ok"}, body : Bodies]
    \cup [kind : {"http"}, status : Statuses \ {429}, retryAfter : {NoHeader}]
    \cup [kind : {"http"}, status : {429}, retryAfter : RetryAfterValues]
    \cup [kind : {"throw"}, name : {"TypeError", "NetworkError"}]

\* the Error object makeRequest's catch block sees for a failed fetch outcome
ErrorOf(o) ==
    IF o.kind = "http"
    THEN [name |-> "Error", status |-> o.status, retryAfter |-> o.retryAfter]
    ELSE [name |-> o.name, status |-> NoStatus, retryAfter |-> NoHeader]

NoError == [name |-> "none", status |-> NoStatus, retryAfter |-> NoHeader]

(***************************************************************************)
(* APIClient                                                               *)
(***************************************************************************)

\* default of the maxRetries parameter of makeRequest and handleError
maxRetries == 3

categorizeError(error, onLine) ==
    IF ~onLine \/ error.name = "NetworkError" THEN "network"
    ELSE IF error.status = 401 \/ error.status = 403 THEN "auth"
    ELSE IF error.status = 429 THEN "rateLimit"
    ELSE IF error.status >= 400 /\ error.status < 500 THEN "validation"
    ELSE IF error.status >= 500 THEN "server"
    ELSE "unknown"

\* the handlers registered by initializeDefaultErrorHandlers; delay 0 stands
\* for a result without a delay field (and for a delay that is falsy)
errorHandlers(errorType, error) ==
    CASE errorType = "network"    -> [retry |-> TRUE,  delay |-> 2000]
      [] errorType = "auth"       -> [retry |-> FALSE, delay |-> 0]
      [] errorType = "server"     -> [retry |-> TRUE,  delay |-> 5000]
      [] errorType = "validation" -> [retry |-> FALSE, delay |-> 0]
      [] errorType = "rateLimit"  ->
            [retry |-> TRUE,
             delay |-> (IF error.retryAfter = NoHeader THEN 60
                        ELSE error.retryAfter) * 1000]

HasHandler(errorType) == errorType # "unknown"

\* handleError: shouldRetry = result.retry && attempt < maxRetries
shouldRetry_off_by_one(errorType, error, att) ==
    /\ HasHandler(errorType)
    /\ errorHandlers(errorType, error).retry
    /\ att <= maxRetries

shouldRetry(errorType, error, att) ==
    /\ HasHandler(errorType)
    /\ errorHandlers(errorType, error).retry
    /\ att < maxRetries

\* handleError: retryDelay = result.delay || 1000
retryDelayOf(errorType, error) ==
    IF HasHandler(errorType) /\ errorHandlers(errorType, error).delay # 0
    THEN errorHandlers(errorType, error).delay
    ELSE 1000

VARIABLES
    online,      \* navigator.onLine
    token,       \* APIClient.token is set
    reqState,    \* "idle", "attempting", "delaying", "returned", "thrown"
    attempt,     \* the attempt parameter of the running makeRequest
    fetchCount,  \* calls of fetch() made for the current logical request
    retryDelay,  \* the delay handleError is waiting for
    lastError,   \* the error of the latest failed attempt of the request
    reqPrevDelay, \* the delay waited before the latest retry (0: none yet)
    reqBody,     \* body of the response makeRequest returned
    reqOwner     \* who issued the request: "direct" or "poll"

reqVars == <<online, token, reqState, attempt, fetchCount, retryDelay, lastError,
             reqPrevDelay, reqBody, reqOwner>>

InitRequest ==
    /\ online \in BOOLEAN
    /\ token \in BOOLEAN
    /\ reqState = "idle"
    /\ attempt = 1
    /\ fetchCount = 0
    /\ retryDelay = 0
    /\ lastError = NoError
    /\ reqPrevDelay = 0
    /\ reqBody = "processing"
    /\ reqOwner = "direct"

\* makeRequest(url, options) called with the default attempt = 1
BeginRequest(owner) ==
    /\ reqState' = "attempting"
    /\ attempt' = 1
    /\ fetchCount' = 0
    /\ retryDelay' = 0
    /\ lastError' = NoError
    /\ reqPrevDelay' = 0
    /\ reqOwner' = owner
    /\ UNCHANGED <<online, token, reqBody>>

\* one pass through makeRequest's try block: fetch, and on a failure the
\* catch block's handleError up to its await of delay() or its throw
makeRequest ==
    /\ reqState = "attempting"
    /\ \E o \in FetchOutcomes :
        /\ fetchCount' = fetchCount + 1
        /\ IF o.kind = "ok"
           THEN /\ reqState' = "returned"
                /\ reqBody' = o.body
                /\ UNCHANGED <<token, retryDelay, lastError>>
           ELSE LET error == ErrorOf(o)
                    errorType == categorizeError(error, online)
                IN  /\ lastError' = error
                    /\ token' = IF errorType = "auth" THEN FALSE ELSE token
                    /\ retryDelay' = retryDelayOf(errorType, error)
                    /\ reqState' = IF shouldRetry(errorType, error, attempt)
                                   THEN "delaying" ELSE "thrown"
                    /\ UNCHANGED reqBody
    /\ UNCHANGED <<online, attempt, reqPrevDelay, reqOwner>>

\* handleError after its delay: makeRequest(url, options, attempt + 1)
handleErrorRetry ==
    /\ reqState = "delaying"
    /\ reqState' = "attempting"
    /\ attempt' = attempt + 1
    /\ reqPrevDelay' = retryDelay
    /\ UNCHANGED <<online, token, fetchCount, retryDelay, lastError, reqBody,
                   reqOwner>>

\* the browser goes offline or comes back online
NetworkStatusChange ==
    /\ online' = ~online
    /\ UNCHANGED <<token, reqState, attempt, fetchCount, retryDelay, lastError,
                   reqPrevDelay, reqBody, reqOwner>>

\* a caller of the APIClient issues a request
DirectRequest ==
    /\ reqState = "idle"
    /\ BeginRequest("direct")

\* the caller takes the result; the client is free for the next request
DirectRequestDone ==
    /\ reqState \in {"returned", "thrown"}
    /\ reqOwner = "direct"
    /\ reqState' = "idle"
    /\ UNCHANGED <<online, token, attempt, fetchCount, retryDelay, lastError,
                   reqPrevDelay, reqBody, reqOwner>>

\* APIClient.setToken
setToken ==
    /\ reqState = "idle"
    /\ ~token
    /\ token' = TRUE
    /\ UNCHANGED <<online, reqState, attempt, fetchCount, retryDelay, lastError,
                   reqPrevDelay, reqBody, reqOwner>>

(***************************************************************************)
(* GeminiClient                                                            *)
(***************************************************************************)

\* longest source text, in tokens
MaxCodeLen == 2

\* most issues in one model answer
MaxIssues == 2

\* sequences over S of length at most n
SeqUpTo(S, n) == UNION {[1..k -> S] : k \in 0..n}

Range(f) == {f[i] : i \in DOMAIN f}

\* a source text is a sequence of tokens; "secret" is a credential-shaped
\* substring (API key, password, token), "stmt" is any other code
CodeTokens == {"stmt", "secret"}

Codes == SeqUpTo(CodeTokens, MaxCodeLen)

\* createCodeReviewPrompt: the instructions, the code verbatim inside a
\* fenced block, and the closing sentence
createCodeReviewPrompt(code) == <<"instructions">> \o code \o <<"closing">>

IssueTypes == {"security", "quality"}

Severities == {"high", "medium", "low"}

\* a line past the end of every source text
LinePastEnd == MaxCodeLen + 1

\* the issues of a model answer: any type and severity on the first line,
\* and one issue whose line is past the end of the source text
Issues ==
    [type : IssueTypes, severity : Severities, line : {1}]
    \cup [type : {"quality"}, severity : {"low"}, line : {LinePastEnd}]

IssueLists == SeqUpTo(Issues, MaxIssues)

Summary(t, h, m, l, q) ==
    [total_issues |-> t, high_severity_issues |-> h,
     medium_severity_issues |-> m, low_severity_issues |-> l,
     overall_quality_score |-> q]

\* the summary a model answer carries; its counts are the model's own
ModelSummary == Summary(5, 5, 0, 0, 40)

\* parseAnalysisResponse: analysis.summary || { ... 85 ... }
DefaultSummary == Summary(0, 0, 0, 0, 85)

\* the values JSON.parse can return: an object with any of the fields
\* summary, issues and recommendations; null; a number
ObjectDocs ==
    {[kind |-> "object", fields |-> f,
      summary |-> IF "summary" \in f THEN ModelSummary ELSE DefaultSummary,
      issues |-> is,
      recommendations |-> IF "recommendations" \in f THEN <<"rec">> ELSE <<>>]
        : f \in SUBSET {"summary", "issues", "recommendations"},
          is \in IssueLists}

JsonDocs ==
    {d \in ObjectDocs : "issues" \notin d.fields => d.issues = <<>>}
    \cup {[kind |-> "null"], [kind |-> "number"]}

\* the tokens of a model answer
JsonTokens == {[t |-> "json", doc |-> d] : d \in JsonDocs}

Garbage == [t |-> "garbage"]

Prose == [t |-> "prose"]

FenceJson == [t |-> "fenceJson"]

Fence == [t |-> "fence"]

Space == [t |-> "space"]

Payloads == JsonTokens \cup {Garbage}

\* the framings of a payload in the answer text
Texts ==
    UNION {{ <<p>>,
             <<Space, p, Space>>,
             <<FenceJson, Space, p, Space, Fence>>,
             <<Prose, FenceJson, p, Fence, Prose>>,
             <<Prose, p, Prose>>,
             <<FenceJson, p>> } : p \in Payloads}

\* index of the first token at or after i that satisfies the test, else 0
RECURSIVE FirstFrom(_, _, _)
FirstFrom(text, i, kinds) ==
    IF i > Len(text) THEN 0
    ELSE IF text[i].t \in kinds THEN i
    ELSE FirstFrom(text, i + 1, kinds)

\* String.prototype.trim
RECURSIVE trim(_)
trim(text) ==
    IF text = <<>> THEN text
    ELSE IF Head(text).t = "space" THEN trim(Tail(text))
    ELSE IF text[Len(text)].t = "space"
         THEN trim(SubSeq(text, 1, Len(text) - 1))
    ELSE text

\* analysisText.match(/```json\s*([\s\S]*?)\s*```/): the text between the
\* first ```json and the next ``` (the one opening a ```json included)
jsonMatch(text) ==
    LET open == FirstFrom(text, 1, {"fenceJson"})
        close == IF open = 0 THEN 0
                 ELSE FirstFrom(text, open + 1, {"fence", "fenceJson"})
    IN  [found |-> close # 0,
         group |-> IF close # 0 THEN trim(SubSeq(text, open + 1, close - 1))
                   ELSE <<>>]

jsonText(text) ==
    trim(IF jsonMatch(text).found THEN jsonMatch(text).group ELSE text)

\* JSON.parse(jsonText) returns a value
JSONparses(text) == Len(jsonText(text)) = 1 /\ jsonText(text)[1].t = "json"

JSONparse(text) == jsonText(text)[1].doc

\* String.prototype.toLowerCase on the severity spellings of the model
toLowerCase(str) ==
    CASE str = "High" -> "high"
      [] str = "Medium" -> "medium"
      [] str = "Low" -> "low"
      [] OTHER -> str

\* severityCounts[sev] of validateIssueCounts
Count(issues, sev) ==
    Cardinality({i \in DOMAIN issues : toLowerCase(issues[i].severity) = sev})

\* validateIssueCounts
validateIssueCounts(report) ==
    [report EXCEPT !.report_summary =
        Summary(Len(report.issues), Count(report.issues, "high"),
                Count(report.issues, "medium"), Count(report.issues, "low"),
                report.report_summary.overall_quality_score)]

\* the catch block of parseAnalysisResponse
FallbackReport ==
    [status |-> "completed",
     report_summary |-> Summary(0, 0, 0, 0, 75),
     issues |-> <<[type |-> "quality", severity |-> "low", line |-> 1]>>,
     recommendations |-> <<"run again">>]

\* the try block: null has no properties, so reading analysis.summary throws
parseAnalysisResponse(text) ==
    IF JSONparses(text) /\ JSONparse(text).kind = "object"
    THEN validateIssueCounts(
            [status |-> "completed",
             report_summary |-> JSONparse(text).summary,
             issues |-> JSONparse(text).issues,
             recommendations |-> JSONparse(text).recommendations])
    ELSE IF JSONparses(text) /\ JSONparse(text).kind = "number"
    THEN validateIssueCounts(
            [status |-> "completed", report_summary |-> DefaultSummary,
             issues |-> <<>>, recommendations |-> <<>>])
    ELSE FallbackReport

\* what the provider's endpoint can answer to one generateContent call
GeminiOutcomes ==
    [kind : {"throw"}]
    \cup [kind : {"http"}, status : Statuses]
    \cup [kind : {"noText"}]
    \cup [kind : {"text"}, text : Texts]

NoResult == [kind |-> "none"]

VARIABLES
    apiKey,      \* GeminiClient.apiKey is set
    gState,      \* "idle", "awaiting" (fetch in flight), "done"
    gCode,       \* the code handed to analyzeCode
    gSent,       \* the prompts sent to the provider, in order
    gOutcome,    \* the provider's answer to the last call
    gResult,     \* what analyzeCode gave its caller: a report or an exception
    uiStatus,    \* the analysis status indicator (updateAnalysisStatus)
    gFile        \* the file of the last upload, NoFile for editor code

gemVars == <<apiKey, gState, gCode, gSent, gOutcome, gResult, uiStatus, gFile>>

NoFile == [kind |-> "none"]

\* a File: its extension is one of the allowed ones or not, its size is over
\* maxSize (10MB) or not; its text is the code
File(extensionAllowed, oversized) ==
    [kind |-> "file", extensionAllowed |-> extensionAllowed,
     oversized |-> oversized]

\* validateUploadedFile returns normally: the extension is allowed and
\* file.size > maxSize is false
validateUploadedFile(file) == file.extensionAllowed /\ ~file.oversized

\* initializeAPIIntegration constructs the client with its built-in key
InitGemini ==
    /\ apiKey = TRUE
    /\ gState = "idle"
    /\ gCode = <<>>
    /\ gSent = <<>>
    /\ gOutcome = [kind |-> "none"]
    /\ gResult = NoResult
    /\ uiStatus = "ready"
    /\ gFile = NoFile

\* analyzeCode up to its await of fetch
analyzeCodeCall(code) ==
    /\ gCode' = code
    /\ gOutcome' = [kind |-> "none"]
    /\ IF ~apiKey
       THEN /\ gResult' = [kind |-> "exception", message |-> "api key required"]
            /\ gState' = "done"
            /\ uiStatus' = "failed"
            /\ gSent' = <<>>
       ELSE /\ gResult' = NoResult
            /\ gState' = "awaiting"
            /\ uiStatus' = "processing"
            /\ gSent' = <<createCodeReviewPrompt(code)>>
    /\ UNCHANGED apiKey

\* handleGeminiCodeAnalysis: the Run button or Ctrl+Enter in the editor
handleGeminiCodeAnalysis ==
    /\ gState = "idle"
    /\ \E code \in Codes :
        /\ gFile' = NoFile
        /\ IF code = <<>>
           THEN /\ uiStatus' = "failed"
                /\ gResult' = NoResult
                /\ gSent' = <<>>
                /\ gCode' = code
                /\ gOutcome' = [kind |-> "none"]
                /\ gState' = "done"
                /\ UNCHANGED apiKey
           ELSE analyzeCodeCall(code)

\* handleGeminiFileUpload: validateUploadedFile, then analyzeFile reads the
\* file as text and calls analyzeCode
handleGeminiFileUpload ==
    /\ gState = "idle"
    /\ \E code \in Codes, extensionAllowed \in BOOLEAN, oversized \in BOOLEAN :
        /\ oversized => code # <<>>
        /\ gFile' = File(extensionAllowed, oversized)
        /\ IF ~validateUploadedFile(File(extensionAllowed, oversized))
           THEN /\ uiStatus' = "failed"
                /\ gResult' = NoResult
                /\ gSent' = <<>>
                /\ gCode' = code
                /\ gOutcome' = [kind |-> "none"]
                /\ gState' = "done"
                /\ UNCHANGED apiKey
           ELSE analyzeCodeCall(code)

\* the rest of analyzeCode once fetch settles, and the caller's handling of
\* the report (updateAnalysisResultsFromReport) or of the exception
\* (showAnalysisError)
analyzeCodeResponse ==
    /\ gState = "awaiting"
    /\ \E o \in GeminiOutcomes :
        /\ gOutcome' = o
        /\ gResult' =
             IF o.kind = "text"
             THEN [kind |-> "report", report |-> parseAnalysisResponse(o.text)]
             ELSE [kind |-> "exception", message |-> o.kind]
        /\ uiStatus' = IF o.kind = "text"
                       THEN parseAnalysisResponse(o.text).status
                       ELSE "failed"
    /\ gState' = "done"
    /\ UNCHANGED <<apiKey, gCode, gSent, gFile>>

\* the page is ready for the next analysis
analysisShown ==
    /\ gState = "done"
    /\ gState' = "idle"
    /\ UNCHANGED <<apiKey, gCode, gSent, gOutcome, gResult, uiStatus, gFile>>

(***************************************************************************)
(* ErrorHandler.handleApiError                                             *)
(***************************************************************************)

\* ErrorHandler.maxRetries
ehMaxRetries == 3

\* ErrorHandler.retryDelays[i], i counted from 0; 5000 past the end
retryDelays(i) ==
    CASE i = 0 -> 1000
      [] i = 1 -> 2000
      [] OTHER -> 5000

\* the error.status values handleApiError is called with; NoStatus gives
\* the key `${operation}_unknown`
EHStatuses == {NoStatus, 404, 408, 429, 500}

isRetryableError_exact_5xx_429(status) ==
    status = NoStatus \/ status >= 500 \/ status = 429

isRetryableError(status) ==
    status = NoStatus \/ status >= 500 \/ status = 408 \/ status = 429

VARIABLES
    errorCounts, \* ErrorHandler.errorCounts, per status key of one operation
    ehState,     \* "idle", "delaying", "returned", "thrown"
    ehError,     \* status of the error the running handleApiError was given
    ehRetryFn,   \* a retryFunction was passed
    ehDelay,     \* the delay being waited before the retry
    ehPrevDelay, \* the delay waited before the previous retry (0: none)
    ehRetries,   \* calls of retryFunction since the top-level call
    ehCaller     \* who made the top-level call: "none", "triggerCodeAnalysis",
                 \* "other"

ehVars == <<errorCounts, ehState, ehError, ehRetryFn, ehDelay, ehPrevDelay,
            ehRetries, ehCaller>>

InitErrorHandler ==
    /\ errorCounts = [k \in EHStatuses |-> 0]
    /\ ehState = "idle"
    /\ ehError = NoStatus
    /\ ehRetryFn = FALSE
    /\ ehDelay = 0
    /\ ehPrevDelay = 0
    /\ ehRetries = 0
    /\ ehCaller = "none"

\* the body of handleApiError(error, operation, retryFunction) up to its
\* await of delay() or its throw
handleApiErrorBody(status, retryFunction) ==
    LET errorCount == errorCounts[status]
        retry == /\ retryFunction
                 /\ errorCount < ehMaxRetries
                 /\ isRetryableError(status)
    IN  /\ ehError' = status
        /\ IF retry
           THEN /\ errorCounts' = [errorCounts EXCEPT ![status] = errorCount + 1]
                /\ ehDelay' = retryDelays(errorCount)
                /\ ehPrevDelay' = ehDelay
                /\ ehState' = "delaying"
           ELSE /\ errorCounts' = [errorCounts EXCEPT ![status] = 0]
                /\ ehState' = "thrown"
                /\ UNCHANGED <<ehDelay, ehPrevDelay>>

\* a caller's catch block hands an error to handleApiError
handleApiError ==
    /\ ehState = "idle"
    /\ \E status \in EHStatuses, retryFunction \in BOOLEAN :
        /\ ehRetryFn' = retryFunction
        /\ ehRetries' = 0
        /\ ehCaller' = "other"
        /\ handleApiErrorBody(status, retryFunction)

\* triggerCodeAnalysis with non-empty code and window.apiClient present: it
\* uploads only through handleApiError, handing it the upload closure both
\* as `error` (no status, so the key is `Code Upload_unknown`) and as
\* retryFunction
triggerCodeAnalysis ==
    /\ ehState = "idle"
    /\ ehRetryFn' = TRUE
    /\ ehRetries' = 0
    /\ ehCaller' = "triggerCodeAnalysis"
    /\ handleApiErrorBody(NoStatus, TRUE)

\* after the delay: await retryFunction(); a rejection re-enters
\* handleApiError with the new error
handleApiErrorRetry ==
    /\ ehState = "delaying"
    /\ ehRetries' = ehRetries + 1
    /\ UNCHANGED <<ehRetryFn, ehCaller>>
    /\ \/ /\ ehState' = "returned"
          /\ UNCHANGED <<errorCounts, ehError, ehDelay, ehPrevDelay>>
       \/ \E status \in EHStatuses : handleApiErrorBody(status, ehRetryFn)

\* the caller has the result of the top-level call
handleApiErrorDone ==
    /\ ehState \in {"returned", "thrown"}
    /\ ehState' = "idle"
    /\ ehDelay' = 0
    /\ ehPrevDelay' = 0
    /\ UNCHANGED <<errorCounts, ehError, ehRetryFn, ehRetries, ehCaller>>

(***************************************************************************)
(* APIClient.pollAnalysisStatus and startAnalysisPolling                   *)
(***************************************************************************)

\* maxAttempts of pollAnalysisStatus (default) and of startAnalysisPolling
maxAttempts == 30

\* startAnalysisPolling: a 404 is tolerated while pollAttempt < 5
notReadyAttempts == 5

VARIABLES
    pollKind,     \* "api": pollAnalysisStatus, "app": startAnalysisPolling
    pollState,    \* "idle", "requesting", "waiting", "done"
    pollAttempt,  \* the loop counter
    pollRequests, \* calls of getAnalysisReport made by this polling
    pollOutcome,  \* "none", "completed", "failed", "timeout", "error"
    pollReturn,   \* how the polling call settled: "none", "report", "null",
                  \* "rejected"
    loadingShown  \* the analysis loading overlay is shown

pollVars == <<pollKind, pollState, pollAttempt, pollRequests, pollOutcome,
              pollReturn, loadingShown>>

InitPoll ==
    /\ pollKind = "api"
    /\ pollState = "idle"
    /\ pollAttempt = 0
    /\ pollRequests = 0
    /\ pollOutcome = "none"
    /\ pollReturn = "none"
    /\ loadingShown = FALSE

\* the loop condition of both pollings
loopContinues_inclusive(att) == att <= maxAttempts

loopContinues(att) == att < maxAttempts

\* how the polling call settles: the report on completion; otherwise
\* pollAnalysisStatus rethrows, while the outer catch of
\* startAnalysisPolling reports the error and returns null
pollResult_rethrows(kind, outcome) ==
    IF outcome = "completed" THEN "report" ELSE "rejected"

pollResult(kind, outcome) ==
    IF outcome = "completed" THEN "report"
    ELSE IF kind = "app" THEN "null"
    ELSE "rejected"

\* hideAnalysisLoading is called on both exits of startAnalysisPolling;
\* pollAnalysisStatus does not touch the overlay
overlayAfterExit(kind, shown) == IF kind = "app" THEN FALSE ELSE shown

\* the polling call settles with the given outcome
PollSettles(kind, outcome, shown) ==
    /\ pollState' = "done"
    /\ pollOutcome' = outcome
    /\ pollReturn' = pollResult(kind, outcome)
    /\ loadingShown' = overlayAfterExit(kind, shown)

\* the head of the while loop: another getAnalysisReport, or the timeout
\* thrown after the loop
PollLoop(kind, att, requests, shown) ==
    IF loopContinues(att)
    THEN /\ BeginRequest("poll")
         /\ pollState' = "requesting"
         /\ pollRequests' = requests + 1
         /\ pollOutcome' = "none"
         /\ pollReturn' = "none"
         /\ loadingShown' = shown
    ELSE /\ PollSettles(kind, "timeout", shown)
         /\ pollRequests' = requests
         /\ UNCHANGED reqVars

\* pollAnalysisStatus(reportId) or startAnalysisPolling(reportId) is called
startPolling ==
    /\ pollState = "idle"
    /\ pollAttempt' = 0
    /\ \E kind \in {"api", "app"} :
        /\ pollKind' = kind
        /\ PollLoop(kind, 0, 0, kind = "app")

\* getAnalysisReport settles: makeRequest returned or threw and get() has
\* parsed the body; the loop body runs up to its next await
pollIteration ==
    /\ pollState = "requesting"
    /\ reqState \in {"returned", "thrown"}
    /\ UNCHANGED <<reqVars, pollKind, pollRequests>>
    /\ IF reqState = "returned" /\ reqBody = "completed"
       THEN /\ PollSettles(pollKind, "completed", loadingShown)
            /\ UNCHANGED pollAttempt
       ELSE IF reqState = "returned" /\ reqBody = "failed"
       THEN /\ PollSettles(pollKind, "failed", loadingShown)
            /\ UNCHANGED pollAttempt
       ELSE IF reqState = "returned" /\ reqBody = "processing"
       THEN /\ pollState' = "waiting"
            /\ pollOutcome' = "none"
            /\ UNCHANGED <<pollReturn, loadingShown>>
            /\ pollAttempt' = IF pollKind = "app" THEN pollAttempt + 1
                              ELSE pollAttempt
       ELSE IF /\ pollKind = "app"
               /\ reqState = "thrown"
               /\ lastError.status = 404
               /\ pollAttempt < notReadyAttempts
       THEN /\ pollState' = "waiting"
            /\ pollOutcome' = "none"
            /\ UNCHANGED <<pollReturn, loadingShown>>
            /\ pollAttempt' = pollAttempt + 1
       ELSE /\ PollSettles(pollKind, "error", loadingShown)
            /\ UNCHANGED pollAttempt

\* the delay between two polls has elapsed
pollDelayElapsed ==
    /\ pollState = "waiting"
    /\ pollAttempt' = IF pollKind = "api" THEN pollAttempt + 1 ELSE pollAttempt
    /\ PollLoop(pollKind, pollAttempt', pollRequests, loadingShown)
    /\ UNCHANGED pollKind

\* the caller has the result of the polling
pollingDone ==
    /\ pollState = "done"
    /\ pollState' = "idle"
    /\ reqState' = "idle"
    /\ UNCHANGED <<online, token, attempt, fetchCount, retryDelay, lastError,
                   reqPrevDelay, reqBody, reqOwner>>
    /\ UNCHANGED <<pollKind, pollAttempt, pollRequests, pollOutcome,
                   pollReturn, loadingShown>>

(***************************************************************************)
(* The chunked analysis run: AnalysisInvoker with its circuit breaker and *)
(* ResultAggregator.  The repository's sources hold only the design of    *)
(* this pipeline, so it is modelled from the specification.               *)
(***************************************************************************)

\* most chunks of one run
MaxChunks == 4

\* most chunk analyses in flight at once
MaxInFlight == 2

\* consecutive chunk failures that trip the circuit breaker
Threshold == 2

\* attempts per chunk (requirement 7.5: retry up to 3 times)
MaxAttempts == 3

Chunks == 1..MaxChunks

Terminal == {"ok", "failed", "failedFast"}

VARIABLES
    runState,     \* "idle", "running", "aggregated"
    nChunks,      \* number of chunks of the run
    chunkState,   \* per chunk: "none", "pending", "inFlight", "backoff",
                  \*            "ok", "failed", "failedFast"
    chunkAttempts,        \* per chunk: LLM calls issued for it
    consecutiveFailures,  \* the circuit breaker's counter
    tripped,              \* the circuit breaker is open
    remainingAtTrip,      \* chunks without a result or call when it opened
    callsAfterTrip,       \* LLM calls issued after the breaker opened
    runReport,            \* the Report of the run
    completions           \* the chunk outcomes of the run ("ok", "failed"),
                          \* in the order the analyses completed

runVars == <<runState, nChunks, chunkState, chunkAttempts, consecutiveFailures,
             tripped, remainingAtTrip, callsAfterTrip, runReport, completions>>

NoRunReport == [status |-> "none", issuesFrom |-> {}, failedChunks |-> {}]

InitRun ==
    /\ runState = "idle"
    /\ nChunks = 0
    /\ chunkState = [c \in Chunks |-> "none"]
    /\ chunkAttempts = [c \in Chunks |-> 0]
    /\ consecutiveFailures = 0
    /\ tripped = FALSE
    /\ remainingAtTrip = {}
    /\ callsAfterTrip = 0
    /\ runReport = NoRunReport
    /\ completions = <<>>

InFlight == {c \in Chunks : chunkState[c] = "inFlight"}

\* the breaker opens when the counter reaches the threshold
breakerOpens_one_late(failures) == failures > Threshold

breakerOpens(failures) == failures >= Threshold

\* the atomic update of the failure counter for one chunk failure
recordFailure_counted_twice(failures) == failures + 2

recordFailure(failures) == failures + 1

\* the breaker lets a call through
breakerAllows_ignored(isTripped) == TRUE

breakerAllows(isTripped) == ~isTripped

\* aggregate: Completed if at least one chunk succeeded, else Failed
aggregateStatus_all_must_succeed(states, n) ==
    IF \A c \in 1..n : states[c] = "ok" THEN "completed" ELSE "failed"

aggregateStatus(states, n) ==
    IF \E c \in 1..n : states[c] = "ok" THEN "completed" ELSE "failed"

\* a run starts: the report is created and the content is chunked
startRun ==
    /\ runState = "idle"
    /\ \E n \in Chunks :
        /\ nChunks' = n
        /\ chunkState' = [c \in Chunks |-> IF c <= n THEN "pending" ELSE "none"]
    /\ runState' = "running"
    /\ chunkAttempts' = [c \in Chunks |-> 0]
    /\ consecutiveFailures' = 0
    /\ tripped' = FALSE
    /\ remainingAtTrip' = {}
    /\ callsAfterTrip' = 0
    /\ runReport' = [status |-> "processing", issuesFrom |-> {},
                     failedChunks |-> {}]
    /\ completions' = <<>>

\* AnalysisInvoker issues one LLM call for a chunk (first attempt or retry)
issueCall(c) ==
    /\ runState = "running"
    /\ chunkState[c] \in {"pending", "backoff"}
    /\ breakerAllows(tripped)
    /\ Cardinality(InFlight) < MaxInFlight
    /\ chunkState' = [chunkState EXCEPT ![c] = "inFlight"]
    /\ chunkAttempts' = [chunkAttempts EXCEPT ![c] = @ + 1]
    /\ callsAfterTrip' = IF tripped THEN callsAfterTrip + 1 ELSE callsAfterTrip
    /\ UNCHANGED <<runState, nChunks, consecutiveFailures, tripped,
                   remainingAtTrip, runReport, completions>>

\* the call returns a valid analysis
callSucceeds(c) ==
    /\ runState = "running"
    /\ chunkState[c] = "inFlight"
    /\ chunkState' = [chunkState EXCEPT ![c] = "ok"]
    /\ consecutiveFailures' = 0
    /\ completions' = Append(completions, "ok")
    /\ UNCHANGED <<runState, nChunks, chunkAttempts, tripped, remainingAtTrip,
                   callsAfterTrip, runReport>>

\* the call fails; a retryable failure with attempts left is retried after
\* a backoff, anything else is a chunk failure counted by the breaker
callFails(c) ==
    /\ runState = "running"
    /\ chunkState[c] = "inFlight"
    /\ \E retryable \in BOOLEAN :
        IF retryable /\ chunkAttempts[c] < MaxAttempts
        THEN /\ chunkState' = [chunkState EXCEPT ![c] = "backoff"]
             /\ UNCHANGED <<consecutiveFailures, tripped, remainingAtTrip,
                            completions>>
        ELSE /\ chunkState' = [chunkState EXCEPT ![c] = "failed"]
             /\ consecutiveFailures' = recordFailure(consecutiveFailures)
             /\ completions' = Append(completions, "failed")
             /\ tripped' = (tripped \/ breakerOpens(consecutiveFailures'))
             /\ remainingAtTrip' =
                  IF ~tripped /\ tripped'
                  THEN {d \in Chunks : chunkState[d] \in {"pending", "backoff"}}
                  ELSE remainingAtTrip
    /\ UNCHANGED <<runState, nChunks, chunkAttempts, callsAfterTrip, runReport>>

\* with the breaker open a chunk that still needs a call fails fast
failFast(c) ==
    /\ runState = "running"
    /\ tripped
    /\ chunkState[c] \in {"pending", "backoff"}
    /\ chunkState' = [chunkState EXCEPT ![c] = "failedFast"]
    /\ UNCHANGED <<runState, nChunks, chunkAttempts, consecutiveFailures,
                   tripped, remainingAtTrip, callsAfterTrip, runReport,
                   completions>>

\* ResultAggregator.aggregate, once every chunk has its outcome
aggregate ==
    /\ runState = "running"
    /\ \A c \in 1..nChunks : chunkState[c] \in Terminal
    /\ runState' = "aggregated"
    /\ runReport' =
         [status |-> aggregateStatus(chunkState, nChunks),
          issuesFrom |-> {c \in 1..nChunks : chunkState[c] = "ok"},
          failedChunks |-> {c \in 1..nChunks : chunkState[c] # "ok"}]
    /\ UNCHANGED <<nChunks, chunkState, chunkAttempts, consecutiveFailures,
                   tripped, remainingAtTrip, callsAfterTrip, completions>>

\* the report has been delivered
runDelivered ==
    /\ runState = "aggregated"
    /\ runState' = "idle"
    /\ UNCHANGED <<nChunks, chunkState, chunkAttempts, consecutiveFailures,
                   tripped, remainingAtTrip, callsAfterTrip, runReport,
                   completions>>

(***************************************************************************)
(* Chunker and the issue arithmetic of ResultAggregator.  Like the run     *)
(* above, they exist in the repository as a design only and are modelled   *)
(* from the specification.                                                 *)
(***************************************************************************)

\* longest sanitized content, in lines
MaxLines == 3

\* largest maxChunkSize, in lines
MaxChunkSize == 2

Min(a, b) == IF a <= b THEN a ELSE b

Max(a, b) == IF a >= b THEN a ELSE b

\* a sanitized content is a sequence of lines; a "def" line starts a
\* top-level unit (function or class), a "body" line continues one
LineKinds == {"def", "body"}

Contents == SeqUpTo(LineKinds, MaxLines)

\* a language with boundary markers, and one the Chunker knows none for
Languages == {"python", "unknown"}

ChunkSizes == 1..MaxChunkSize

CodeChunk(content, sequenceIndex, startLine, endLine) ==
    [sequenceIndex |-> sequenceIndex, startLine |-> startLine,
     endLine |-> endLine, content |-> SubSeq(content, startLine, endLine)]

\* the line on which the chunk after one ending at endLine starts
startAfter_skips_line(endLine) == endLine + 2

startAfter(endLine) == endLine + 1

\* last line of the top-level unit that starts at line s
RECURSIVE unitEnd(_, _)
unitEnd(content, s) ==
    IF s >= Len(content) THEN Len(content)
    ELSE IF content[s + 1] = "def" THEN s
    ELSE unitEnd(content, s + 1)

unitStarts(content) ==
    {1} \cup {i \in 1..Len(content) : content[i] = "def"}

\* boundary-aware splitting applies: the language has markers, the content
\* shows one, and no single unit exceeds maxChunkSize
boundariesDetected(content, language, maxChunkSize) ==
    /\ language # "unknown"
    /\ \E i \in 1..Len(content) : content[i] = "def"
    /\ \A s \in unitStarts(content) :
          unitEnd(content, s) - s + 1 <= maxChunkSize

\* fixed-size line-count splitting of the lines from s on
RECURSIVE fixedSplit(_, _, _, _)
fixedSplit(content, s, sequenceIndex, maxChunkSize) ==
    IF s > Len(content) THEN <<>>
    ELSE LET e == Min(s + maxChunkSize - 1, Len(content))
         IN  <<CodeChunk(content, sequenceIndex, s, e)>>
             \o fixedSplit(content, startAfter(e), sequenceIndex + 1,
                           maxChunkSize)

\* the chunk that starts at s and so far ends at e takes the next top-level
\* unit while adding it does not exceed maxChunkSize
RECURSIVE chunkEnd(_, _, _, _)
chunkEnd(content, s, e, maxChunkSize) ==
    IF e >= Len(content) THEN Len(content)
    ELSE IF unitEnd(content, e + 1) - s + 1 <= maxChunkSize
         THEN chunkEnd(content, s, unitEnd(content, e + 1), maxChunkSize)
    ELSE e

\* boundary-aware splitting of the lines from s on
RECURSIVE boundarySplit(_, _, _, _)
boundarySplit(content, s, sequenceIndex, maxChunkSize) ==
    IF s > Len(content) THEN <<>>
    ELSE LET e == chunkEnd(content, s, unitEnd(content, s), maxChunkSize)
         IN  <<CodeChunk(content, sequenceIndex, s, e)>>
             \o boundarySplit(content, startAfter(e), sequenceIndex + 1,
                              maxChunkSize)

\* Chunker.chunk
chunk(content, language, maxChunkSize) ==
    IF content = <<>> THEN <<>>
    ELSE IF Len(content) <= maxChunkSize
         THEN <<CodeChunk(content, 1, 1, Len(content))>>
    ELSE IF boundariesDetected(content, language, maxChunkSize)
         THEN boundarySplit(content, 1, 1, maxChunkSize)
    ELSE fixedSplit(content, 1, 1, maxChunkSize)

\* the lines a model answer names, relative to the chunk it saw: the first
\* line, and a line past the end of every chunk
ChunkLocalLines == {1, MaxChunkSize + 1}

\* security issues of every severity, and style issues of low severity
ChunkIssues ==
    [type : {"security"}, severity : Severities, line : ChunkLocalLines]
    \cup [type : {"style"}, severity : {"low"}, line : ChunkLocalLines]

\* the outcome of AnalysisInvoker for one chunk: a failure, or an analysis
\* with no issue or one issue
ChunkResults ==
    {[ok |-> FALSE, issues |-> <<>>]}
    \cup {[ok |-> TRUE, issues |-> <<>>]}
    \cup {[ok |-> TRUE, issues |-> <<i>>] : i \in ChunkIssues}

\* the model's line numbers are relative to the chunk: shift by startLine - 1
shiftLine_by_startLine(line, startLine) == line + startLine

shiftLine(line, startLine) == line + (startLine - 1)

\* a shifted line outside the file is clamped to the file's bounds
clampLine(line, totalLinesInOriginalFile) ==
    Max(1, Min(line, totalLinesInOriginalFile))

\* the issues of one chunk result in file coordinates; reported and chunk
\* record where the issue came from
shiftedIssues(content, c, result) ==
    [k \in DOMAIN result.issues |->
        [type |-> result.issues[k].type,
         severity |-> result.issues[k].severity,
         line |-> clampLine(shiftLine(result.issues[k].line, c.startLine),
                            Len(content)),
         reported |-> result.issues[k].line,
         chunk |-> c.sequenceIndex]]

\* the issues of the successful chunks, in chunk sequence order
RECURSIVE mergedIssues(_, _, _, _)
mergedIssues(content, chunks, results, k) ==
    IF k > Len(chunks) THEN <<>>
    ELSE (IF results[k].ok
          THEN shiftedIssues(content, chunks[k], results[k])
          ELSE <<>>)
         \o mergedIssues(content, chunks, results, k + 1)

severityRank(severity) ==
    CASE severity = "high" -> 3
      [] severity = "medium" -> 2
      [] OTHER -> 1

\* a goes before b: higher severity, or the same severity and a lower line
goesBefore(a, b) ==
    \/ severityRank(a.severity) > severityRank(b.severity)
    \/ /\ severityRank(a.severity) = severityRank(b.severity)
       /\ a.line < b.line

\* stable insertion: x goes after every issue it does not go before
RECURSIVE insertIssue(_, _)
insertIssue(list, x) ==
    IF list = <<>> THEN <<x>>
    ELSE IF goesBefore(x, Head(list)) THEN <<x>> \o list
    ELSE <<Head(list)>> \o insertIssue(Tail(list), x)

RECURSIVE orderIssues(_)
orderIssues(list) ==
    IF list = <<>> THEN <<>>
    ELSE insertIssue(orderIssues(SubSeq(list, 1, Len(list) - 1)),
                     list[Len(list)])

\* max(0, 100 - 20*high - 10*medium - 5*low)
scoreOf(issues) ==
    Max(0, 100 - 20 * Count(issues, "high") - 10 * Count(issues, "medium")
             - 5 * Count(issues, "low"))

securityIssuesOf(issues) ==
    LET IsSecurity(i) == i.type = "security" IN SelectSeq(issues, IsSecurity)

\* ResultAggregator.aggregate
aggregateResults(content, chunks, results) ==
    LET issues == orderIssues(mergedIssues(content, chunks, results, 1))
    IN  [status |-> aggregateStatus(
                        [k \in DOMAIN results |->
                            IF results[k].ok THEN "ok" ELSE "failed"],
                        Len(results)),
         issues |-> IF \E k \in DOMAIN results : results[k].ok
                    THEN issues ELSE <<>>,
         total_issues |-> Len(issues),
         high |-> Count(issues, "high"),
         medium |-> Count(issues, "medium"),
         low |-> Count(issues, "low"),
         quality_score |-> scoreOf(issues),
         security_score |-> scoreOf(securityIssuesOf(issues)),
         failedChunks |-> {k \in DOMAIN results : ~results[k].ok}]

VARIABLES
    pState,     \* "idle", "chunked", "nothing" (no chunk), "aggregated"
    pInput,     \* the content, language and maxChunkSize given to chunk
    pChunks,    \* the CodeChunks, in sequence order
    pResults,   \* the outcomes of the chunks analysed so far, in order
    pReport     \* the aggregated Report

pipeVars == <<pState, pInput, pChunks, pResults, pReport>>

NoInput == [content |-> <<>>, language |-> "unknown", maxChunkSize |-> 1]

NoPipeReport == [status |-> "none"]

InitPipeline ==
    /\ pState = "idle"
    /\ pInput = NoInput
    /\ pChunks = <<>>
    /\ pResults = <<>>
    /\ pReport = NoPipeReport

\* the sanitized content of an upload is chunked
chunkContent ==
    /\ pState = "idle"
    /\ \E content \in Contents, language \in Languages,
          maxChunkSize \in ChunkSizes :
        /\ pInput' = [content |-> content, language |-> language,
                      maxChunkSize |-> maxChunkSize]
        /\ pChunks' = chunk(content, language, maxChunkSize)
        /\ pState' = IF content = <<>> THEN "nothing" ELSE "chunked"
    /\ pResults' = <<>>
    /\ pReport' = [status |-> "processing"]

\* AnalysisInvoker settles the next chunk: an analysis or a ChunkFailure
chunkAnalysed ==
    /\ pState = "chunked"
    /\ Len(pResults) < Len(pChunks)
    /\ \E result \in ChunkResults : pResults' = Append(pResults, result)
    /\ UNCHANGED <<pState, pInput, pChunks, pReport>>

\* every chunk has its outcome: ResultAggregator builds the Report
aggregateReport ==
    /\ pState = "chunked"
    /\ Len(pResults) = Len(pChunks)
    /\ pReport' = aggregateResults(pInput.content, pChunks, pResults)
    /\ pState' = "aggregated"
    /\ UNCHANGED <<pInput, pChunks, pResults>>

\* the Report is delivered and the request's data discarded
pipelineDone ==
    /\ pState \in {"aggregated", "nothing"}
    /\ pState' = "idle"
    /\ pInput' = NoInput
    /\ pChunks' = <<>>
    /\ pResults' = <<>>
    /\ pReport' = NoPipeReport

(***************************************************************************)
(* The report display of app.js: updateIssuesList, updateSummaryMetrics,   *)
(* updateDashboardFromSummary, updateProgressBars                          *)
(***************************************************************************)

\* most issues of a displayed report
MaxReportIssues == 4

\* largest per-severity count of a report summary
MaxCount == 5

\* the issues of a report: the model's schema, with lines 1 and 2
ReportIssues == [type : IssueTypes, severity : Severities, line : {1, 2}]

ReportIssueLists == SeqUpTo(ReportIssues, MaxReportIssues)

\* a report as the display functions read it: report.issues is an array
\* or is missing
Reports ==
    {[hasIssues |-> TRUE, issues |-> is] : is \in ReportIssueLists}
    \cup {[hasIssues |-> FALSE, issues |-> <<>>]}

\* report.report_summary is missing
NoSummary == [defined |-> FALSE]

Summaries ==
    {Summary(h + m + l, h, m, l, 85) :
        h \in 0..MaxCount, m \in 0..MaxCount, l \in 0..MaxCount}

\* updateIssuesList: severityOrder[severity] || 0
severityOrder_ascending(severity) ==
    CASE severity = "high" -> 1
      [] severity = "medium" -> 2
      [] severity = "low" -> 3
      [] OTHER -> 0

severityOrder(severity) ==
    CASE severity = "high" -> 3
      [] severity = "medium" -> 2
      [] severity = "low" -> 1
      [] OTHER -> 0

\* the comparator given to sort
compareIssues(a, b) == severityOrder(b.severity) - severityOrder(a.severity)

\* Array.prototype.sort is stable: an issue is placed before the first one
\* that the comparator puts after it
RECURSIVE insertSorted(_, _)
insertSorted(list, x) ==
    IF list = <<>> THEN <<x>>
    ELSE IF compareIssues(x, Head(list)) < 0 THEN <<x>> \o list
    ELSE <<Head(list)>> \o insertSorted(Tail(list), x)

\* [...issues].sort(comparator)
RECURSIVE sortedIssues(_)
sortedIssues(issues) ==
    IF issues = <<>> THEN <<>>
    ELSE insertSorted(sortedIssues(SubSeq(issues, 1, Len(issues) - 1)),
                      issues[Len(issues)])

\* calculateQualityScore; the counts of a summary are numbers, so the
\* || 0 defaults do not act
calculateQualityScore_unclamped(summary) ==
    IF summary = NoSummary THEN 85
    ELSE 100 - summary.high_severity_issues * 20
             - summary.medium_severity_issues * 10
             - summary.low_severity_issues * 5

calculateQualityScore(summary) ==
    IF summary = NoSummary THEN 85
    ELSE Max(0, 100 - summary.high_severity_issues * 20
                    - summary.medium_severity_issues * 10
                    - summary.low_severity_issues * 5)

\* issues.filter(i => i.type === t && i.severity === s).length
CountOf(issues, types, severity) ==
    Cardinality({k \in DOMAIN issues :
                    issues[k].type \in types /\ issues[k].severity = severity})

\* calculateQualityGrade
calculateQualityGrade(report) ==
    IF ~report.hasIssues THEN "A"
    ELSE LET highIssues == CountOf(report.issues, IssueTypes, "high")
             totalIssues == Len(report.issues)
         IN  IF highIssues = 0 /\ totalIssues <= 2 THEN "A"
             ELSE IF highIssues = 0 /\ totalIssues <= 5 THEN "B+"
             ELSE IF highIssues <= 1 /\ totalIssues <= 8 THEN "B"
             ELSE IF highIssues <= 2 /\ totalIssues <= 12 THEN "C+"
             ELSE IF highIssues <= 3 THEN "C"
             ELSE "D"

\* calculateSecurityScore
calculateSecurityScore_all_types(report) ==
    IF ~report.hasIssues THEN 100
    ELSE Max(0, 100 - (CountOf(report.issues, IssueTypes, "high") * 30
                       + CountOf(report.issues, IssueTypes, "medium") * 15
                       + CountOf(report.issues, IssueTypes, "low") * 5))

calculateSecurityScore(report) ==
    IF ~report.hasIssues THEN 100
    ELSE Max(0, 100 - (CountOf(report.issues, {"security"}, "high") * 30
                       + CountOf(report.issues, {"security"}, "medium") * 15
                       + CountOf(report.issues, {"security"}, "low") * 5))

VARIABLES
    rCall,     \* the display function that ran last
    rInput,    \* its argument
    rOutput    \* what it put on the page

repVars == <<rCall, rInput, rOutput>>

InitReport ==
    /\ rCall = "none"
    /\ rInput = [hasIssues |-> FALSE, issues |-> <<>>]
    /\ rOutput = [issues |-> <<>>]

\* updateIssuesList(report.issues || []): the list items, in display order
updateIssuesList ==
    /\ rCall = "none"
    /\ \E report \in Reports :
        /\ rCall' = "updateIssuesList"
        /\ rInput' = report
        /\ rOutput' = [issues |-> sortedIssues(report.issues)]

\* updateSummaryMetrics(report): issue count, quality grade, security score
updateSummaryMetrics ==
    /\ rCall = "none"
    /\ \E report \in Reports :
        /\ rCall' = "updateSummaryMetrics"
        /\ rInput' = report
        /\ rOutput' = [issueCount |-> Len(report.issues),
                       grade |-> calculateQualityGrade(report),
                       securityScore |-> calculateSecurityScore(report)]

\* updateDashboardFromSummary(report.report_summary), which its caller runs
\* only for a report that has a summary: quality score and issues found
updateDashboardFromSummary ==
    /\ rCall = "none"
    /\ \E summary \in Summaries :
        /\ rCall' = "updateDashboardFromSummary"
        /\ rInput' = summary
        /\ rOutput' = [qualityScore |-> calculateQualityScore(summary),
                       issuesFound |-> summary.total_issues]

\* updateProgressBars(report): the base of the mock coverage figures
updateProgressBars ==
    /\ rCall = "none"
    /\ \E summary \in Summaries \cup {NoSummary} :
        /\ rCall' = "updateProgressBars"
        /\ rInput' = summary
        /\ rOutput' = [baseCoverage |->
                          Max(60, calculateQualityScore(summary) - 10)]

\* the page is ready for the next report
reportShown ==
    /\ rCall # "none"
    /\ rCall' = "none"
    /\ rInput' = [hasIssues |-> FALSE, issues |-> <<>>]
    /\ rOutput' = [issues |-> <<>>]

\* longest issue list of a Gemini report shown on the page
MaxSpelledIssues == 3

\* most issues of one severity in a charted issue list
MaxPerSeverity == 7

\* severities as a model answer may spell them
SpelledSeverities == Severities \cup {"High"}

SpelledIssues == [type : IssueTypes, severity : SpelledSeverities, line : {1}]

SpelledIssueLists == SeqUpTo(SpelledIssues, MaxSpelledIssues)

\* an issue list with h high, m medium and l low issues
IssuesOf(h, m, l) ==
    [k \in 1..(h + m + l) |->
        [type |-> "quality",
         severity |-> IF k <= h THEN "high"
                      ELSE IF k <= h + m THEN "medium" ELSE "low",
         line |-> 1]]

ChartedIssueLists ==
    {IssuesOf(h, m, l) : h \in 0..MaxPerSeverity, m \in 0..MaxPerSeverity,
                         l \in 0..MaxPerSeverity}

\* Math.round((count / total) * 100): halves round up
roundedPercentage(count, total) == (200 * count + total) \div (2 * total)

\* issues.filter(i => i.severity === severity).length
filterCount(issues, severity) ==
    Cardinality({k \in DOMAIN issues : issues[k].severity = severity})

\* the three percentages of updateIssueDistributionChart; total is not 0
issueDistribution(issues) ==
    LET total == Len(issues)
        highPercentage == roundedPercentage(filterCount(issues, "high"), total)
        mediumPercentage ==
            roundedPercentage(filterCount(issues, "medium"), total)
    IN  [high |-> highPercentage,
         medium |-> mediumPercentage,
         low |-> 100 - highPercentage - mediumPercentage]

\* updateAnalysisResultsFromReport(report) for the report of
\* geminiClient.analyzeCode, whose summary validateIssueCounts has filled:
\* the summary, the ordered issue list, the grade and the security score
updateAnalysisResultsFromReport ==
    /\ rCall = "none"
    /\ \E issues \in SpelledIssueLists :
        LET report == validateIssueCounts(
                          [status |-> "completed",
                           report_summary |-> DefaultSummary,
                           issues |-> issues,
                           recommendations |-> <<>>])
            shown == [hasIssues |-> TRUE, issues |-> report.issues]
        IN  /\ rCall' = "updateAnalysisResultsFromReport"
            /\ rInput' = shown
            /\ rOutput' = [summary |-> report.report_summary,
                           issues |-> sortedIssues(report.issues),
                           grade |-> calculateQualityGrade(shown),
                           securityScore |-> calculateSecurityScore(shown)]

\* updateIssueDistributionChart(issues); an empty list shows the
\* "No Issues Found" state and no percentages
updateIssueDistributionChart ==
    /\ rCall = "none"
    /\ \E issues \in ChartedIssueLists :
        /\ rCall' = "updateIssueDistributionChart"
        /\ rInput' = [hasIssues |-> TRUE, issues |-> issues]
        /\ rOutput' = IF issues = <<>>
                      THEN [noIssues |-> TRUE]
                      ELSE issueDistribution(issues)

(***************************************************************************)
(* CodeReviewDashboard: processFiles, uploadFile, pollReportStatus         *)
(***************************************************************************)

\* bound on the POSTs to /api/review counted as in flight
MaxPosts == 2

\* default maxAttempts of CodeReviewDashboard.pollReportStatus
pollReportStatusMaxAttempts == 30

\* what a drop or a file selection hands to processFiles: no file, files
\* none of which passes validateFile, or files of which one passes
FileSelections == {"empty", "invalid", "valid"}

\* how one GET of pollReportStatus ends: a 2xx answer with the report's
\* status, a non-2xx answer, or fetch/response.json() throwing
PollOutcomes == {"completed", "failed", "processing", "httpError", "exception"}

\* the first check of processFiles
uploadBlocked_never(inProgress) == FALSE

uploadBlocked(inProgress) == inProgress

VARIABLES
    dApiKey,          \* this.apiKey is set
    uploadInProgress, \* this.uploadInProgress
    dUpload,          \* position of uploadFile: "none", "posting", "reading"
    postsInFlight,    \* POSTs to /api/review sent and not yet answered
    dStatus,          \* the message last given to showStatus ("" at start)
    dTimers,          \* pending setTimeout callbacks of successful uploads
    dPollState,       \* pollReportStatus: "idle", "fetching", "waiting", "ended"
    dAttempts,        \* its attempts counter
    dPolls,           \* GETs it has sent
    dPollEnd          \* how it ended: "none", "complete", "failed", "longer",
                      \* "silent"

dashVars == <<dApiKey, uploadInProgress, dUpload, postsInFlight, dStatus,
              dTimers, dPollState, dAttempts, dPolls, dPollEnd>>

pollReportVars == <<dPollState, dAttempts, dPolls, dPollEnd>>

InitDashboard ==
    /\ dApiKey = FALSE
    /\ uploadInProgress = FALSE
    /\ dUpload = "none"
    /\ postsInFlight = 0
    /\ dStatus = ""
    /\ dTimers = {}
    /\ dPollState = "idle"
    /\ dAttempts = 0
    /\ dPolls = 0
    /\ dPollEnd = "none"

\* initialize(): getApiKey always yields a key (the backend's or the demo key)
initialize ==
    /\ ~dApiKey
    /\ dApiKey' = TRUE
    /\ UNCHANGED <<uploadInProgress, dUpload, postsInFlight, dStatus, dTimers,
                   pollReportVars>>

\* uploadFile(file) up to its await of fetch
uploadFile ==
    IF ~dApiKey
    THEN /\ dStatus' = "API key not available. Please refresh the page."
         /\ UNCHANGED <<uploadInProgress, dUpload, postsInFlight>>
    ELSE /\ uploadInProgress' = TRUE
         /\ dUpload' = "posting"
         /\ postsInFlight' = postsInFlight + 1
         /\ dStatus' = dStatus

\* processFiles(files), called by handleDrop and handleFileSelect
processFiles ==
    /\ postsInFlight < MaxPosts
    /\ \E files \in FileSelections :
        /\ IF uploadBlocked(uploadInProgress)
           THEN /\ dStatus' = "Upload already in progress"
                /\ UNCHANGED <<uploadInProgress, dUpload, postsInFlight>>
           ELSE IF files = "empty"
           THEN UNCHANGED <<uploadInProgress, dUpload, postsInFlight, dStatus>>
           ELSE IF files = "invalid"
           THEN /\ dStatus' = "No valid files selected"
                /\ UNCHANGED <<uploadInProgress, dUpload, postsInFlight>>
           ELSE uploadFile
        /\ UNCHANGED <<dApiKey, dTimers, pollReportVars>>

\* the finally block of uploadFile
uploadFileFinally ==
    /\ uploadInProgress' = FALSE
    /\ dUpload' = "none"

\* the POST is answered: a non-2xx answer or a thrown fetch goes to the
\* catch block, a 2xx answer is read with response.json()
uploadAnswered ==
    /\ dUpload = "posting"
    /\ postsInFlight' = postsInFlight - 1
    /\ \E ok \in BOOLEAN :
        IF ok
        THEN /\ dUpload' = "reading"
             /\ UNCHANGED <<uploadInProgress, dStatus>>
        ELSE /\ dStatus' = "Upload failed"
             /\ uploadFileFinally
    /\ UNCHANGED <<dApiKey, dTimers, pollReportVars>>

\* response.json() settles: the success branch arms its timer, a throw goes
\* to the catch block; either way the finally block runs
uploadRead ==
    /\ dUpload = "reading"
    /\ \E result \in {"completed", "processing", "exception"} :
        IF result = "exception"
        THEN /\ dStatus' = "Upload failed"
             /\ UNCHANGED dTimers
        ELSE /\ dTimers' = dTimers \cup {result}
             /\ UNCHANGED dStatus
    /\ uploadFileFinally
    /\ UNCHANGED <<dApiKey, postsInFlight, pollReportVars>>

\* the 1000 ms timer of a successful upload: a report still processing
\* starts pollReportStatus, whose first poll() is sent at once
uploadTimerFires ==
    /\ \E result \in dTimers :
        /\ dTimers' = dTimers \ {result}
        /\ dStatus' = "File uploaded successfully!"
        /\ IF result = "processing"
           THEN /\ dPollState' = "fetching"
                /\ dAttempts' = 0
                /\ dPolls' = 1
                /\ dPollEnd' = "none"
           ELSE UNCHANGED pollReportVars
    /\ UNCHANGED <<dApiKey, uploadInProgress, dUpload, postsInFlight>>

\* one run of poll() from the answer of its GET
pollAnswered ==
    /\ dPollState = "fetching"
    /\ \E outcome \in PollOutcomes :
        CASE outcome = "completed" ->
                /\ dStatus' = "Analysis complete! Click to view report."
                /\ dPollState' = "ended"
                /\ dPollEnd' = "complete"
                /\ UNCHANGED dAttempts
          [] outcome = "failed" ->
                /\ dStatus' = "Analysis failed. Please try again."
                /\ dPollState' = "ended"
                /\ dPollEnd' = "failed"
                /\ UNCHANGED dAttempts
          [] outcome = "exception" ->
                /\ dPollState' = "ended"
                /\ dPollEnd' = "silent"
                /\ UNCHANGED <<dStatus, dAttempts>>
          [] OTHER ->
                /\ dAttempts' = dAttempts + 1
                /\ IF dAttempts + 1 < pollReportStatusMaxAttempts
                   THEN /\ dPollState' = "waiting"
                        /\ UNCHANGED <<dStatus, dPollEnd>>
                   ELSE /\ dStatus' = "Analysis is taking longer than expected. Check reports tab."
                        /\ dPollState' = "ended"
                        /\ dPollEnd' = "longer"
    /\ UNCHANGED <<dApiKey, uploadInProgress, dUpload, postsInFlight, dTimers,
                   dPolls>>

\* setTimeout(poll, 2000) fires
pollTimerFires ==
    /\ dPollState = "waiting"
    /\ dPollState' = "fetching"
    /\ dPolls' = dPolls + 1
    /\ UNCHANGED <<dApiKey, uploadInProgress, dUpload, postsInFlight, dStatus,
                   dTimers, dAttempts, dPollEnd>>

(***************************************************************************)
(* AuthManager and the change handler of the file-upload input             *)
(***************************************************************************)

\* the token after a request of the API client ended with outcome o: the
\* 'auth' error handler calls clearToken
tokenAfterRequest(tok, o) ==
    IF o.kind # "ok" /\ categorizeError(ErrorOf(o), online) = "auth"
    THEN FALSE
    ELSE tok

\* the buttons of the authentication prompt
PromptActions == {"signin", "continue", "dismiss"}

VARIABLES
    isAuthenticated,   \* AuthManager.isAuthenticated
    authChecked,       \* checkAuthenticationStatus has run
    authModal,         \* the sign-in modal is open
    pendingFileUpload, \* AuthManager.pendingFileUpload is set
    pendingTimer,      \* the 500 ms timer of processPendingFileUpload is armed
    authPrompt,        \* the element #auth-prompt is in the document
    promptTimer,       \* a 10 s auto-hide timer of showAuthPrompt is armed
    promptPromise,     \* promise of the latest showAuthPrompt: "none",
                       \* "pending", or the action it resolved with
    fileHandler        \* latest run of the change handler: "idle",
                       \* "awaitingPrompt", "uploading"

authVars == <<isAuthenticated, authChecked, authModal, pendingFileUpload,
              pendingTimer, authPrompt, promptTimer, promptPromise,
              fileHandler>>

\* the variables of the API client the AuthManager does not write
reqRest == <<online, reqState, attempt, fetchCount, retryDelay, lastError,
             reqPrevDelay, reqBody, reqOwner>>

InitAuth ==
    /\ isAuthenticated = FALSE
    /\ authChecked = FALSE
    /\ authModal = FALSE
    /\ pendingFileUpload = FALSE
    /\ pendingTimer = FALSE
    /\ authPrompt = FALSE
    /\ promptTimer = FALSE
    /\ promptPromise = "none"
    /\ fileHandler = "idle"

\* checkAuthenticationStatus(), called once by init(): a stored token is
\* verified with GET /api/auth/me; a failure clears it
checkAuthenticationStatus ==
    /\ ~authChecked
    /\ authChecked' = TRUE
    /\ IF token
       THEN \E o \in FetchOutcomes :
                IF o.kind = "ok"
                THEN /\ isAuthenticated' = TRUE
                     /\ UNCHANGED token
                ELSE /\ token' = FALSE
                     /\ UNCHANGED isAuthenticated
       ELSE UNCHANGED <<token, isAuthenticated>>
    /\ UNCHANGED <<authModal, pendingFileUpload, pendingTimer, authPrompt,
                   promptTimer, promptPromise, fileHandler, reqRest>>

\* the Sign In button of the navigation, shown while not authenticated
showAuthModal ==
    /\ ~isAuthenticated
    /\ ~authModal
    /\ authModal' = TRUE
    /\ UNCHANGED <<isAuthenticated, authChecked, pendingFileUpload,
                   pendingTimer, authPrompt, promptTimer, promptPromise,
                   fileHandler, reqVars>>

\* close button, cancel button, backdrop click or Escape
hideAuthModal ==
    /\ authModal
    /\ authModal' = FALSE
    /\ UNCHANGED <<isAuthenticated, authChecked, pendingFileUpload,
                   pendingTimer, authPrompt, promptTimer, promptPromise,
                   fileHandler, reqVars>>

\* handleAuthSubmit(): createApiKey stores the new key as the token, then
\* GET /api/auth/me; only when both succeed setAuthenticatedUser runs, the
\* modal closes and a pending file gets its timer
handleAuthSubmit ==
    /\ authModal
    /\ \E validEmail \in BOOLEAN, key \in FetchOutcomes, me \in FetchOutcomes :
        IF ~validEmail
        THEN UNCHANGED <<token, isAuthenticated, authModal, pendingTimer>>
        ELSE IF key.kind # "ok"
        THEN /\ token' = tokenAfterRequest(token, key)
             /\ UNCHANGED <<isAuthenticated, authModal, pendingTimer>>
        ELSE IF me.kind # "ok"
        THEN /\ token' = tokenAfterRequest(TRUE, me)
             /\ UNCHANGED <<isAuthenticated, authModal, pendingTimer>>
        ELSE /\ token' = TRUE
             /\ isAuthenticated' = TRUE
             /\ authModal' = FALSE
             /\ pendingTimer' = (pendingTimer \/ pendingFileUpload)
    /\ UNCHANGED <<authChecked, pendingFileUpload, authPrompt, promptTimer,
                   promptPromise, fileHandler, reqRest>>

\* the 500 ms timer armed by handleAuthSubmit: processPendingFileUpload
\* dispatches a change event for the stored file
processPendingFileUpload ==
    /\ pendingTimer
    /\ pendingTimer' = FALSE
    /\ pendingFileUpload' = FALSE
    /\ IF pendingFileUpload
       THEN IF ~token
            THEN /\ authPrompt' = TRUE
                 /\ promptTimer' = TRUE
                 /\ promptPromise' = "pending"
                 /\ fileHandler' = "awaitingPrompt"
            ELSE /\ fileHandler' = "uploading"
                 /\ UNCHANGED <<authPrompt, promptTimer, promptPromise>>
       ELSE UNCHANGED <<authPrompt, promptTimer, promptPromise, fileHandler>>
    /\ UNCHANGED <<isAuthenticated, authChecked, authModal, reqVars>>

\* logout(), behind the Sign Out button shown while authenticated
logout ==
    /\ isAuthenticated
    /\ token' = FALSE
    /\ isAuthenticated' = FALSE
    /\ UNCHANGED <<authChecked, authModal, pendingFileUpload, pendingTimer,
                   authPrompt, promptTimer, promptPromise, fileHandler,
                   reqRest>>

\* the user selects a file: the change handler asks showAuthPrompt when the
\* API client holds no token, otherwise it uploads at once
fileSelected ==
    /\ fileHandler \in {"idle", "awaitingPrompt"}
    /\ IF ~token
       THEN /\ authPrompt' = TRUE
            /\ promptTimer' = TRUE
            /\ promptPromise' = "pending"
            /\ fileHandler' = "awaitingPrompt"
       ELSE /\ fileHandler' = "uploading"
            /\ UNCHANGED <<authPrompt, promptTimer, promptPromise>>
    /\ UNCHANGED <<isAuthenticated, authChecked, authModal, pendingFileUpload,
                   pendingTimer, reqVars>>

\* a button of the prompt is clicked: the prompt is hidden, the promise
\* resolves with the action and the change handler continues
promptClicked ==
    /\ authPrompt
    /\ \E action \in PromptActions :
        /\ authPrompt' = FALSE
        /\ promptPromise' = action
        /\ IF action = "signin"
           THEN /\ authModal' = TRUE
                /\ pendingFileUpload' = TRUE
                /\ fileHandler' = "idle"
           ELSE /\ fileHandler' = "uploading"
                /\ UNCHANGED <<authModal, pendingFileUpload>>
    /\ UNCHANGED <<isAuthenticated, authChecked, pendingTimer, promptTimer,
                   reqVars>>

\* setTimeout(() => this.hideAuthPrompt(), 10000): the prompt is removed;
\* nothing resolves the promise
promptAutoHide ==
    /\ promptTimer
    /\ promptTimer' = FALSE
    /\ authPrompt' = FALSE
    /\ UNCHANGED <<isAuthenticated, authChecked, authModal, pendingFileUpload,
                   pendingTimer, promptPromise, fileHandler, reqVars>>

\* apiClient.uploadFile(file) of the change handler settles
fileUploadSettled ==
    /\ fileHandler = "uploading"
    /\ fileHandler' = "idle"
    /\ \E o \in FetchOutcomes : token' = tokenAfterRequest(token, o)
    /\ UNCHANGED <<isAuthenticated, authChecked, authModal, pendingFileUpload,
                   pendingTimer, authPrompt, promptTimer, promptPromise,
                   reqRest>>

vars == <<reqVars, gemVars, ehVars, pollVars, runVars, pipeVars, repVars, dashVars, authVars>>

Init ==
    /\ InitRequest
    /\ InitGemini
    /\ InitErrorHandler
    /\ InitPoll
    /\ InitRun
    /\ InitPipeline
    /\ InitReport
    /\ InitDashboard
    /\ InitAuth

\* the page is online and holds no token: the start of the machines that
\* read neither navigator.onLine nor the token
InitOnline == Init /\ online /\ ~token

NextRequest ==
    \/ (DirectRequest /\ UNCHANGED <<gemVars, ehVars, pollVars, runVars, pipeVars, repVars, dashVars, authVars>>)
    \/ (makeRequest /\ UNCHANGED <<gemVars, ehVars, pollVars, runVars, pipeVars, repVars, dashVars, authVars>>)
    \/ (handleErrorRetry /\ UNCHANGED <<gemVars, ehVars, pollVars, runVars, pipeVars, repVars, dashVars, authVars>>)
    \/ (DirectRequestDone /\ UNCHANGED <<gemVars, ehVars, pollVars, runVars, pipeVars, repVars, dashVars, authVars>>)
    \/ (NetworkStatusChange /\ UNCHANGED <<gemVars, ehVars, pollVars, runVars, pipeVars, repVars, dashVars, authVars>>)
    \/ (setToken /\ UNCHANGED <<gemVars, ehVars, pollVars, runVars, pipeVars, repVars, dashVars, authVars>>)

SpecRequest == Init /\ [][NextRequest]_vars

NextGemini ==
    \/ (handleGeminiCodeAnalysis /\ UNCHANGED <<reqVars, ehVars, pollVars, runVars, pipeVars, repVars, dashVars, authVars>>)
    \/ (handleGeminiFileUpload /\ UNCHANGED <<reqVars, ehVars, pollVars, runVars, pipeVars, repVars, dashVars, authVars>>)
    \/ (analyzeCodeResponse /\ UNCHANGED <<reqVars, ehVars, pollVars, runVars, pipeVars, repVars, dashVars, authVars>>)
    \/ (analysisShown /\ UNCHANGED <<reqVars, ehVars, pollVars, runVars, pipeVars, repVars, dashVars, authVars>>)

SpecGemini == Init /\ [][NextGemini]_vars

NextErrorHandler ==
    \/ (handleApiError /\ UNCHANGED <<reqVars, gemVars, pollVars, runVars, pipeVars, repVars, dashVars, authVars>>)
    \/ (triggerCodeAnalysis /\ UNCHANGED <<reqVars, gemVars, pollVars, runVars, pipeVars, repVars, dashVars, authVars>>)
    \/ (handleApiErrorRetry /\ UNCHANGED <<reqVars, gemVars, pollVars, runVars, pipeVars, repVars, dashVars, authVars>>)
    \/ (handleApiErrorDone /\ UNCHANGED <<reqVars, gemVars, pollVars, runVars, pipeVars, repVars, dashVars, authVars>>)

SpecErrorHandler == Init /\ [][NextErrorHandler]_vars

NextPoll ==
    \/ (startPolling /\ UNCHANGED <<gemVars, ehVars, runVars, pipeVars, repVars, dashVars, authVars>>)
    \/ (makeRequest /\ UNCHANGED <<gemVars, ehVars, pollVars, runVars, pipeVars, repVars, dashVars, authVars>>)
    \/ (handleErrorRetry /\ UNCHANGED <<gemVars, ehVars, pollVars, runVars, pipeVars, repVars, dashVars, authVars>>)
    \/ (pollIteration /\ UNCHANGED <<gemVars, ehVars, runVars, pipeVars, repVars, dashVars, authVars>>)
    \/ (pollDelayElapsed /\ UNCHANGED <<gemVars, ehVars, runVars, pipeVars, repVars, dashVars, authVars>>)
    \/ (pollingDone /\ UNCHANGED <<gemVars, ehVars, runVars, pipeVars, repVars, dashVars, authVars>>)
    \/ (NetworkStatusChange /\ UNCHANGED <<gemVars, ehVars, pollVars, runVars, pipeVars, repVars, dashVars, authVars>>)

SpecPoll == Init /\ [][NextPoll]_vars

NextRun ==
    \/ (startRun /\ UNCHANGED <<reqVars, gemVars, ehVars, pollVars, pipeVars, repVars, dashVars, authVars>>)
    \/ (\E c \in Chunks : issueCall(c)
            /\ UNCHANGED <<reqVars, gemVars, ehVars, pollVars, pipeVars, repVars, dashVars, authVars>>)
    \/ (\E c \in Chunks : callSucceeds(c)
            /\ UNCHANGED <<reqVars, gemVars, ehVars, pollVars, pipeVars, repVars, dashVars, authVars>>)
    \/ (\E c \in Chunks : callFails(c)
            /\ UNCHANGED <<reqVars, gemVars, ehVars, pollVars, pipeVars, repVars, dashVars, authVars>>)
    \/ (\E c \in Chunks : failFast(c)
            /\ UNCHANGED <<reqVars, gemVars, ehVars, pollVars, pipeVars, repVars, dashVars, authVars>>)
    \/ (aggregate /\ UNCHANGED <<reqVars, gemVars, ehVars, pollVars, pipeVars, repVars, dashVars, authVars>>)
    \/ (runDelivered /\ UNCHANGED <<reqVars, gemVars, ehVars, pollVars, pipeVars, repVars, dashVars, authVars>>)

SpecRun == InitOnline /\ [][NextRun]_vars

NextPipeline ==
    \/ (chunkContent
            /\ UNCHANGED <<reqVars, gemVars, ehVars, pollVars, runVars, repVars, dashVars, authVars>>)
    \/ (chunkAnalysed
            /\ UNCHANGED <<reqVars, gemVars, ehVars, pollVars, runVars, repVars, dashVars, authVars>>)
    \/ (aggregateReport
            /\ UNCHANGED <<reqVars, gemVars, ehVars, pollVars, runVars, repVars, dashVars, authVars>>)
    \/ (pipelineDone
            /\ UNCHANGED <<reqVars, gemVars, ehVars, pollVars, runVars, repVars, dashVars, authVars>>)

SpecPipeline == InitOnline /\ [][NextPipeline]_vars

NextReport ==
    \/ (updateIssuesList
            /\ UNCHANGED <<reqVars, gemVars, ehVars, pollVars, runVars, pipeVars, dashVars, authVars>>)
    \/ (updateSummaryMetrics
            /\ UNCHANGED <<reqVars, gemVars, ehVars, pollVars, runVars, pipeVars, dashVars, authVars>>)
    \/ (updateDashboardFromSummary
            /\ UNCHANGED <<reqVars, gemVars, ehVars, pollVars, runVars, pipeVars, dashVars, authVars>>)
    \/ (updateProgressBars
            /\ UNCHANGED <<reqVars, gemVars, ehVars, pollVars, runVars, pipeVars, dashVars, authVars>>)
    \/ (reportShown
            /\ UNCHANGED <<reqVars, gemVars, ehVars, pollVars, runVars, pipeVars, dashVars, authVars>>)

SpecReport == InitOnline /\ [][NextReport]_vars

NextCharts ==
    \/ (updateAnalysisResultsFromReport
            /\ UNCHANGED <<reqVars, gemVars, ehVars, pollVars, runVars, pipeVars, dashVars, authVars>>)
    \/ (updateIssueDistributionChart
            /\ UNCHANGED <<reqVars, gemVars, ehVars, pollVars, runVars, pipeVars, dashVars, authVars>>)
    \/ (reportShown
            /\ UNCHANGED <<reqVars, gemVars, ehVars, pollVars, runVars, pipeVars, dashVars, authVars>>)

SpecCharts == InitOnline /\ [][NextCharts]_vars

NextDashboard ==
    \/ (initialize
            /\ UNCHANGED <<reqVars, gemVars, ehVars, pollVars, runVars, pipeVars, repVars, authVars>>)
    \/ (processFiles
            /\ UNCHANGED <<reqVars, gemVars, ehVars, pollVars, runVars, pipeVars, repVars, authVars>>)
    \/ (uploadAnswered
            /\ UNCHANGED <<reqVars, gemVars, ehVars, pollVars, runVars, pipeVars, repVars, authVars>>)
    \/ (uploadRead
            /\ UNCHANGED <<reqVars, gemVars, ehVars, pollVars, runVars, pipeVars, repVars, authVars>>)
    \/ (uploadTimerFires
            /\ UNCHANGED <<reqVars, gemVars, ehVars, pollVars, runVars, pipeVars, repVars, authVars>>)
    \/ (pollAnswered
            /\ UNCHANGED <<reqVars, gemVars, ehVars, pollVars, runVars, pipeVars, repVars, authVars>>)
    \/ (pollTimerFires
            /\ UNCHANGED <<reqVars, gemVars, ehVars, pollVars, runVars, pipeVars, repVars, authVars>>)

SpecDashboard == InitOnline /\ [][NextDashboard]_vars

NextAuth ==
    \/ (checkAuthenticationStatus
            /\ UNCHANGED <<gemVars, ehVars, pollVars, runVars, pipeVars, repVars, dashVars>>)
    \/ (showAuthModal
            /\ UNCHANGED <<gemVars, ehVars, pollVars, runVars, pipeVars, repVars, dashVars>>)
    \/ (hideAuthModal
            /\ UNCHANGED <<gemVars, ehVars, pollVars, runVars, pipeVars, repVars, dashVars>>)
    \/ (handleAuthSubmit
            /\ UNCHANGED <<gemVars, ehVars, pollVars, runVars, pipeVars, repVars, dashVars>>)
    \/ (processPendingFileUpload
            /\ UNCHANGED <<gemVars, ehVars, pollVars, runVars, pipeVars, repVars, dashVars>>)
    \/ (logout
            /\ UNCHANGED <<gemVars, ehVars, pollVars, runVars, pipeVars, repVars, dashVars>>)
    \/ (fileSelected
            /\ UNCHANGED <<gemVars, ehVars, pollVars, runVars, pipeVars, repVars, dashVars>>)
    \/ (promptClicked
            /\ UNCHANGED <<gemVars, ehVars, pollVars, runVars, pipeVars, repVars, dashVars>>)
    \/ (promptAutoHide
            /\ UNCHANGED <<gemVars, ehVars, pollVars, runVars, pipeVars, repVars, dashVars>>)
    \/ (fileUploadSettled
            /\ UNCHANGED <<gemVars, ehVars, pollVars, runVars, pipeVars, repVars, dashVars>>)

SpecAuth == Init /\ [][NextAuth]_vars

\* timers fire and a started upload settles; a user looking at the prompt
\* again and again eventually clicks one of its buttons
FairnessAuth ==
    LET others == <<gemVars, ehVars, pollVars, runVars, pipeVars, repVars,
                    dashVars>>
    IN  /\ WF_vars(promptAutoHide /\ UNCHANGED others)
        /\ WF_vars(processPendingFileUpload /\ UNCHANGED others)
        /\ WF_vars(fileUploadSettled /\ UNCHANGED others)
        /\ SF_vars(promptClicked /\ UNCHANGED others)

SpecAuthFair == Init /\ [][NextAuth]_vars /\ FairnessAuth

(***************************************************************************)
(* Properties                                                              *)
(***************************************************************************)

\* C1: every prompt sent to the LLM provider carries only redacted content:
\* no credential-shaped substring of the analysed code appears in it.
C1_OnlyRedactedContentSent ==
    \A i \in DOMAIN gSent : "secret" \notin Range(gSent[i])

\* C2: one logical request never calls fetch more than 3 times (the first
\* attempt plus at most 2 retries).
C2_AtMostThreeFetches == fetchCount <= 3

\* three attempts were made and the request failed for good
C2_ThreeAttemptsExhausted ==
    reqState = "thrown" /\ fetchCount = 3 /\ attempt = 3

IsNetworkError(error) == error.name \in {"TypeError", "NetworkError"}

IsRetryableFailure(error) ==
    IsNetworkError(error) \/ error.status >= 500 \/ error.status = 429

IsClientError(status) == status >= 400 /\ status < 500 /\ status # 429

\* C3: while fewer than 3 attempts have been made, an attempt that fails
\* with a network error, an HTTP 5xx or an HTTP 429 is followed by another
\* attempt, so makeRequest does not give up on such a failure early.
C3_RetryableFailureIsRetried ==
    (reqState = "thrown" /\ fetchCount < 3) => ~IsRetryableFailure(lastError)

\* C4: an attempt that fails with an HTTP 4xx other than 429 is never
\* followed by another attempt of makeRequest.
C4_ClientErrorIsNotRetried ==
    reqState = "delaying" => ~IsClientError(lastError.status)

\* C5: once the consecutive chunk failures reach the threshold the breaker
\* is open, no LLM call is issued after that, and every chunk that was
\* still waiting for a call ends the run as failed-fast.
C5_BreakerStopsCalls ==
    /\ (runState = "running" /\ consecutiveFailures >= Threshold) => tripped
    /\ callsAfterTrip = 0
    /\ runState = "aggregated" =>
          \A c \in remainingAtTrip : chunkState[c] = "failedFast"

\* the breaker opened with chunks still waiting, and the run was aggregated
C5_TrippedWithRemainingChunks ==
    /\ runState = "aggregated"
    /\ tripped
    /\ remainingAtTrip # {}
    /\ \E c \in remainingAtTrip : chunkAttempts[c] = 0

\* C6: the final report is Completed exactly when at least one chunk
\* succeeded, otherwise Failed; a chunk that did not succeed contributes no
\* issues and is recorded as failed.
C6_CompletedIffSomeChunkSucceeded ==
    runState = "aggregated" =>
        /\ runReport.status \in {"completed", "failed"}
        /\ runReport.status = "completed"
              <=> (\E c \in 1..nChunks : chunkState[c] = "ok")
        /\ \A c \in 1..nChunks :
              chunkState[c] # "ok" =>
                  c \notin runReport.issuesFrom /\ c \in runReport.failedChunks
        /\ \A c \in 1..nChunks :
              chunkState[c] = "ok" => c \in runReport.issuesFrom

\* three chunks, the second exhausted its retries, the others succeeded
C6_PartialFailureRun ==
    /\ runState = "aggregated"
    /\ nChunks = 3
    /\ chunkState[1] = "ok" /\ chunkState[3] = "ok"
    /\ chunkState[2] = "failed" /\ chunkAttempts[2] = MaxAttempts
    /\ runReport.status = "completed"

AnalysisFailed == gState = "done" /\ gOutcome.kind \in {"throw", "http", "noText"}

\* C7: when an analysis fails the caller receives a report with status
\* failed, no issues, no recommendations, never a bare exception.
C7_FailureYieldsFailedReport ==
    AnalysisFailed =>
        /\ gResult.kind = "report"
        /\ gResult.report.status = "failed"
        /\ gResult.report.issues = <<>>
        /\ gResult.report.recommendations = <<>>

\* the JSON value or broken JSON a model answer carries
PayloadOf(text) ==
    text[CHOOSE i \in DOMAIN text : text[i].t \in {"json", "garbage"}]

\* the answer is valid JSON with the required fields issues, recommendations
HasRequiredStructure(text) ==
    /\ PayloadOf(text).t = "json"
    /\ PayloadOf(text).doc.kind = "object"
    /\ {"issues", "recommendations"} \subseteq PayloadOf(text).doc.fields

\* C8: a model answer that is not valid JSON or lacks required fields is
\* never turned into a report with status completed.
C8_MalformedAnswerNotCoerced ==
    (gState = "done" /\ gOutcome.kind = "text"
        /\ ~HasRequiredStructure(gOutcome.text))
    => ~(gResult.kind = "report" /\ gResult.report.status = "completed")

\* C9: a report is created with status processing, and a report in a
\* terminal state never changes.
C9_ReportLifecycle ==
    [][/\ (gResult.kind # "report" /\ gResult'.kind = "report")
            => gResult'.report.status = "processing"
       /\ (gResult.kind = "report" /\ gResult'.kind = "report")
            => gResult' = gResult]_vars

PollEnded == pollState = "done"

\* C10 as stated: at most 30 status requests, and the polling ends with
\* the completed report, the failed status or a timeout failure.
C10_PollEndsCompletedFailedOrTimeout ==
    /\ pollRequests <= 30
    /\ PollEnded => pollOutcome \in {"completed", "failed", "timeout"}

\* C10 amended: at most 30 calls of getAnalysisReport, each of at most 3
\* fetches; the polling stops at the first report that is completed or
\* failed, stops with the error when a status request fails or cannot be
\* parsed (startAnalysisPolling goes on after a 404 while pollAttempt < 5),
\* and ends with the timeout failure only after the 30th call.
C10_PollingIsBounded ==
    /\ pollRequests <= 30
    /\ fetchCount <= 3
    /\ pollState = "waiting" =>
          \/ reqState = "returned" /\ reqBody = "processing"
          \/ /\ pollKind = "app"
             /\ reqState = "thrown"
             /\ lastError.status = 404
             /\ pollAttempt <= notReadyAttempts
    /\ PollEnded =>
          \/ /\ pollOutcome \in {"completed", "failed"}
             /\ reqState = "returned"
             /\ reqBody = pollOutcome
          \/ /\ pollOutcome = "timeout"
             /\ pollRequests = 30
             /\ pollAttempt = 30
          \/ /\ pollOutcome = "error"
             /\ reqState = "thrown" \/ reqBody = "unparseable"

\* thirty polls all saw a report still processing: the timeout
C10_TimedOutAfterThirtyPolls ==
    PollEnded /\ pollOutcome = "timeout" /\ pollRequests = 30

\* C11: a file whose content is empty or whose size exceeds the maximum
\* (10MB) is rejected before any other work: no prompt is sent to the LLM
\* provider for such a file.
C11_EmptyOrOversizedFileNotSent ==
    (gFile.kind = "file" /\ (gCode = <<>> \/ gFile.oversized)) => gSent = <<>>

\* the number of lines of a source text: one per token, and the empty text
\* is a single empty line
totalLines(code) == IF code = <<>> THEN 1 ELSE Len(code)

\* C14: every issue of a completed report has 1 <= line <= the number of
\* lines of the analysed code; an out-of-range line is clamped into range.
C14_IssueLinesWithinFile ==
    (gResult.kind = "report" /\ gResult.report.status = "completed") =>
        \A i \in DOMAIN gResult.report.issues :
            /\ 1 <= gResult.report.issues[i].line
            /\ gResult.report.issues[i].line <= totalLines(gCode)

\* C16: in every report GeminiClient returns, the one built when the answer
\* could not be parsed included, total_issues is the number of issues and
\* the high, medium and low counts are the numbers of issues of each
\* severity, which add up to the total.
C16_SummaryCountsMatchIssues ==
    gResult.kind = "report" =>
        LET report == gResult.report
            summary == report.report_summary
        IN  /\ summary.total_issues = Len(report.issues)
            /\ summary.high_severity_issues = Count(report.issues, "high")
            /\ summary.medium_severity_issues = Count(report.issues, "medium")
            /\ summary.low_severity_issues = Count(report.issues, "low")
            /\ summary.high_severity_issues + summary.medium_severity_issues
                  + summary.low_severity_issues = Len(report.issues)

\* the contents of the chunks, one after the other
RECURSIVE concatContents(_)
concatContents(chunks) ==
    IF chunks = <<>> THEN <<>>
    ELSE Head(chunks).content \o concatContents(Tail(chunks))

LinesOf(c) == c.startLine..c.endLine

\* C12: for every source text and chunk size the chunks are contiguous and
\* non-overlapping (chunk[i].endLine + 1 = chunk[i+1].startLine), their line
\* ranges partition [1, totalLines], and their contents concatenated in
\* sequence order are the sanitized content.
C12_ChunksPartitionContent ==
    /\ \A i \in 1..(Len(pChunks) - 1) :
          pChunks[i].endLine + 1 = pChunks[i + 1].startLine
    /\ \A i \in DOMAIN pChunks :
          /\ pChunks[i].sequenceIndex = i
          /\ pChunks[i].startLine <= pChunks[i].endLine
    /\ \A i, j \in DOMAIN pChunks :
          i # j => LinesOf(pChunks[i]) \cap LinesOf(pChunks[j]) = {}
    /\ UNION {LinesOf(pChunks[i]) : i \in DOMAIN pChunks}
          = 1..Len(pInput.content)
    /\ concatContents(pChunks) = pInput.content

\* a content split at a top-level boundary, where fixed-size splitting
\* would have cut elsewhere
C12_SplitAtBoundary ==
    /\ pState = "chunked"
    /\ Len(pChunks) >= 2
    /\ boundariesDetected(pInput.content, pInput.language, pInput.maxChunkSize)
    /\ pChunks # fixedSplit(pInput.content, 1, 1, pInput.maxChunkSize)

\* the chunk-relative line of a report issue shifted to file coordinates
ShiftedLineOf(issue) == issue.reported + (pChunks[issue.chunk].startLine - 1)

\* every issue of every successful chunk is in the report
AllChunkIssuesReported ==
    \A c \in DOMAIN pResults :
        (pResults[c].ok /\ pResults[c].issues # <<>>) =>
            \E k \in DOMAIN pReport.issues :
                /\ pReport.issues[k].chunk = c
                /\ pReport.issues[k].reported = pResults[c].issues[1].line

\* C13: for every issue of every successful chunk, the line in the final
\* report is the chunk-relative line the model reported plus
\* (chunk.startLine - 1).
C13_FinalLineIsShiftedLine ==
    pState = "aggregated" =>
        /\ AllChunkIssuesReported
        /\ \A k \in DOMAIN pReport.issues :
              pReport.issues[k].line = ShiftedLineOf(pReport.issues[k])

\* C13 (amended): the line in the final report is the chunk-relative line
\* plus (chunk.startLine - 1) whenever that sum lies within the file, and
\* the last line of the file when the sum is past it.
C13_FinalLineIsShiftedLineWithinFile ==
    pState = "aggregated" =>
        /\ AllChunkIssuesReported
        /\ \A k \in DOMAIN pReport.issues :
              LET shifted == ShiftedLineOf(pReport.issues[k])
                  total == Len(pInput.content)
              IN  IF 1 <= shifted /\ shifted <= total
                  THEN pReport.issues[k].line = shifted
                  ELSE pReport.issues[k].line = IF shifted < 1 THEN 1 ELSE total

\* an issue of a chunk that does not start on line 1 was moved to its
\* file line
C13_IssueOfLaterChunkShifted ==
    /\ pState = "aggregated"
    /\ \E k \in DOMAIN pReport.issues :
          /\ pChunks[pReport.issues[k].chunk].startLine > 1
          /\ pReport.issues[k].line = ShiftedLineOf(pReport.issues[k])
          /\ pReport.issues[k].line # pReport.issues[k].reported

SeverityLevel(issue) ==
    CASE issue.severity = "high" -> 3
      [] issue.severity = "medium" -> 2
      [] issue.severity = "low" -> 1

\* the issues of a list that have the given severity, in list order
WithSeverity(issues, severity) ==
    LET Has(i) == i.severity = severity IN SelectSeq(issues, Has)

\* the issues of a list that have the given severity and line
WithSeverityAndLine(issues, severity, line) ==
    LET Has(i) == i.severity = severity /\ i.line = line
    IN  SelectSeq(issues, Has)

SeverityDescending(issues) ==
    \A i, j \in DOMAIN issues :
        i < j => SeverityLevel(issues[i]) >= SeverityLevel(issues[j])

\* C15: the issues of a report are ordered by descending severity (high
\* before medium before low), then by ascending line number, and issues
\* equal on both keep their original relative order.
C15_OrderedBySeverityThenLine ==
    rCall = "updateIssuesList" =>
        /\ Len(rOutput.issues) = Len(rInput.issues)
        /\ SeverityDescending(rOutput.issues)
        /\ \A i, j \in DOMAIN rOutput.issues :
              (i < j /\ rOutput.issues[i].severity = rOutput.issues[j].severity)
                  => rOutput.issues[i].line <= rOutput.issues[j].line
        /\ \A severity \in Severities, line \in {1, 2} :
              WithSeverityAndLine(rOutput.issues, severity, line)
                  = WithSeverityAndLine(rInput.issues, severity, line)

\* C15 (amended): the displayed issues are ordered by descending severity,
\* and issues of equal severity keep their original relative order; the
\* line number plays no part in the order.
C15_OrderedBySeverityStable ==
    rCall = "updateIssuesList" =>
        /\ Len(rOutput.issues) = Len(rInput.issues)
        /\ SeverityDescending(rOutput.issues)
        /\ \A severity \in Severities :
              WithSeverity(rOutput.issues, severity)
                  = WithSeverity(rInput.issues, severity)

\* the list was reordered, and two issues of one severity are shown with
\* the higher line first, as they arrived
C15_ReorderedWithLinesAsGiven ==
    /\ rCall = "updateIssuesList"
    /\ rOutput.issues # rInput.issues
    /\ \E i, j \in DOMAIN rOutput.issues :
          /\ i < j
          /\ rOutput.issues[i].severity = rOutput.issues[j].severity
          /\ rOutput.issues[i].line > rOutput.issues[j].line

\* 100 - a*high - b*medium - c*low, not below 0
PenaltyScore(high, medium, low, a, b, c) ==
    IF 100 - a * high - b * medium - c * low < 0 THEN 0
    ELSE 100 - a * high - b * medium - c * low

\* C17: the quality score of a report is
\* max(0, 100 - 20*high - 10*medium - 5*low) over the report's issue
\* counts; it is within [0, 100], and it is 100 for a report with no issue.
C17_QualityScoreFormula ==
    rCall = "updateDashboardFromSummary" =>
        /\ rOutput.qualityScore =
              PenaltyScore(rInput.high_severity_issues,
                           rInput.medium_severity_issues,
                           rInput.low_severity_issues, 20, 10, 5)
        /\ 0 <= rOutput.qualityScore
        /\ rOutput.qualityScore <= 100
        /\ rInput.total_issues = 0 => rOutput.qualityScore = 100

\* a summary whose penalties exceed 100 is shown with score 0
C17_ScoreClampedAtZero ==
    /\ rCall = "updateDashboardFromSummary"
    /\ 100 - 20 * rInput.high_severity_issues
           - 10 * rInput.medium_severity_issues
           - 5 * rInput.low_severity_issues < 0
    /\ rOutput.qualityScore = 0

SecurityCount(issues, severity) ==
    Cardinality({k \in DOMAIN issues :
                    /\ issues[k].type = "security"
                    /\ issues[k].severity = severity})

\* C18: the security score of a report is max(0, 100 - 20*h - 10*m - 5*l),
\* where h, m and l count only the issues of type security with high,
\* medium and low severity.
C18_SecurityScoreQualityWeights ==
    rCall = "updateSummaryMetrics" =>
        rOutput.securityScore =
            PenaltyScore(SecurityCount(rInput.issues, "high"),
                         SecurityCount(rInput.issues, "medium"),
                         SecurityCount(rInput.issues, "low"), 20, 10, 5)

\* C18 (amended): the security score of a report is
\* max(0, 100 - 30*h - 15*m - 5*l), where h, m and l count only the issues
\* of type security with high, medium and low severity.
C18_SecurityScoreOwnWeights ==
    rCall = "updateSummaryMetrics" =>
        rOutput.securityScore =
            PenaltyScore(SecurityCount(rInput.issues, "high"),
                         SecurityCount(rInput.issues, "medium"),
                         SecurityCount(rInput.issues, "low"), 30, 15, 5)

\* a report with a high security issue and a high issue of another type
\* loses 30 points
C18_OnlySecurityIssuesCount ==
    /\ rCall = "updateSummaryMetrics"
    /\ SecurityCount(rInput.issues, "high") = 1
    /\ \E k \in DOMAIN rInput.issues :
          /\ rInput.issues[k].type # "security"
          /\ rInput.issues[k].severity = "high"
    /\ rOutput.securityScore = 70

\* C19: within the retry sequence of one operation the backoff delays
\* escalate: the delay waited before a retry is at least the delay waited
\* before the previous retry of that operation.
C19_BackoffDelaysEscalate ==
    (ehState = "delaying" /\ ehPrevDelay # 0) => ehPrevDelay <= ehDelay

\* the chunk failures at the end of a completion order
RECURSIVE trailingFailures(_)
trailingFailures(log) ==
    IF log = <<>> THEN 0
    ELSE IF log[Len(log)] = "ok" THEN 0
    ELSE 1 + trailingFailures(SubSeq(log, 1, Len(log) - 1))

\* at some point of the completion order Threshold failures were consecutive
thresholdReached(log) ==
    \E k \in 1..Len(log) : trailingFailures(SubSeq(log, 1, k)) >= Threshold

\* C20: when chunk analyses of one run complete concurrently, every
\* failure is reflected exactly once in the breaker's consecutive-failure
\* counter, and the breaker is open exactly when the threshold has been
\* reached.
C20_EveryFailureCountedOnce ==
    /\ consecutiveFailures = trailingFailures(completions)
    /\ tripped = thresholdReached(completions)

\* the breaker opened on a failure that completed while another analysis
\* was in flight, after an earlier success had reset the counter
C20_TrippedByConcurrentFailures ==
    /\ runState = "running"
    /\ tripped
    /\ InFlight # {}
    /\ consecutiveFailures = Threshold
    /\ Len(completions) > Threshold
    /\ completions[Len(completions)] = "failed"

\* the framings of a JSON payload the extraction is to handle: inside a
\* closed fenced json block, or with no fence at all (bare, or surrounded
\* by prose)
InClaimedFraming(text) ==
    \/ /\ \E i \in DOMAIN text : text[i].t = "fenceJson"
       /\ \E i \in DOMAIN text : text[i].t = "fence"
    \/ \A i \in DOMAIN text : text[i].t \notin {"fenceJson", "fence"}

\* C21: the JSON payload of a model response is extracted and parsed in
\* all three framings: inside a fenced json block, as bare JSON, and as
\* JSON surrounded by leading or trailing prose; the report carries the
\* payload's issues and recommendations.
C21_PayloadExtractedInEveryFraming ==
    (/\ gState = "done"
     /\ gOutcome.kind = "text"
     /\ PayloadOf(gOutcome.text).t = "json"
     /\ PayloadOf(gOutcome.text).doc.kind = "object"
     /\ InClaimedFraming(gOutcome.text))
    => /\ gResult.kind = "report"
       /\ gResult.report.issues = PayloadOf(gOutcome.text).doc.issues
       /\ gResult.report.recommendations
            = PayloadOf(gOutcome.text).doc.recommendations


C24_EveryAnalysisAttemptsUpload ==
    (ehCaller = "triggerCodeAnalysis" /\ ehState \in {"returned", "thrown"})
        => ehRetries >= 1

\* the flag is set exactly while uploadFile is between its first statement
\* and its finally block, and at most one POST is unanswered
OneUploadAtATime ==
    /\ postsInFlight <= 1
    /\ uploadInProgress <=> dUpload # "none"
    /\ postsInFlight = 1 <=> dUpload = "posting"

\* C22: at most one upload POST is in flight; a processFiles that runs
\* while an upload is in progress sends no POST; and uploadInProgress is
\* false again after every exit of uploadFile (success, HTTP error,
\* exception), so the next valid selection is uploaded
C22_SingleUploadInFlight ==
    /\ []OneUploadAtATime
    /\ [][uploadInProgress => postsInFlight' <= postsInFlight]_vars
    /\ [][(dUpload # "none" /\ dUpload' = "none") => ~uploadInProgress']_vars

\* a second selection arrived while the POST of the first was unanswered
C22_Witness_SecondSelectionRefused ==
    /\ dStatus = "Upload already in progress"
    /\ postsInFlight = 1
    /\ uploadInProgress

\* a failed upload is behind and the next one is being sent
C22_Witness_UploadAfterFailure ==
    /\ dStatus = "Upload failed"
    /\ dUpload = "posting"

\* C25: a pollReportStatus that has ended has shown one of its final status
\* messages (complete, failed, taking longer than expected) and has sent at
\* most 30 polls
C25_PollEndsWithFinalMessage ==
    /\ dPolls <= pollReportStatusMaxAttempts
    /\ dPollState = "ended" => dPollEnd \in {"complete", "failed", "longer"}

\* the part of C25 the code keeps: never more than 30 polls, and the
\* thirtieth unfinished answer gives the "taking longer" message
C25_AtMostThirtyPolls ==
    /\ dPolls <= pollReportStatusMaxAttempts
    /\ dPollEnd = "longer" => dPolls = pollReportStatusMaxAttempts

\* the last getAnalysisReport of the polling answered with status completed
ObservedCompleted == reqState = "returned" /\ reqBody = "completed"

\* C26: startAnalysisPolling never rejects; once it has settled it has
\* returned the report if and only if a poll observed status completed and
\* null otherwise, and the loading overlay is hidden
C26_PollingSettlesWithoutRejecting ==
    pollKind = "app" =>
        /\ pollReturn # "rejected"
        /\ PollEnded =>
            /\ pollReturn = "report" <=> ObservedCompleted
            /\ pollReturn = "null" <=> ~ObservedCompleted
            /\ ~loadingShown

\* startAnalysisPolling gave up on a request error and returned null with
\* the overlay hidden
C26_Witness_NullAfterError ==
    /\ pollKind = "app"
    /\ PollEnded
    /\ pollOutcome = "error"
    /\ pollReturn = "null"
    /\ ~loadingShown

\* C27: whenever AuthManager.isAuthenticated is true the API client holds a
\* token; in particular, once a 401/403 has cleared the token the
\* AuthManager no longer reports the user as authenticated
C27_AuthenticatedImpliesToken ==
    isAuthenticated => token

\* the part of C27 the code keeps: setAuthenticatedUser runs only with a
\* token stored, and logout clears both together
C27_AuthenticationStartsWithToken ==
    [][/\ (~isAuthenticated /\ isAuthenticated') => token'
       /\ (isAuthenticated /\ ~isAuthenticated') => ~token']_vars

\* C28: the promise returned by showAuthPrompt always eventually resolves,
\* so the file selected without a token is eventually uploaded or stored
\* as the pending upload
C28_PromptPromiseResolves ==
    /\ (promptPromise = "pending") ~> (promptPromise \in PromptActions)
    /\ (fileHandler = "awaitingPrompt")
           ~> (fileHandler = "uploading" \/ pendingFileUpload)

\* the part of C28 the code keeps: a click on any button of the prompt
\* resolves the promise, and the file is then uploaded or stored
C28_ClickResolvesPromise ==
    [][(authPrompt /\ ~authPrompt' /\ promptTimer' = promptTimer)
        => /\ promptPromise' \in PromptActions
           /\ fileHandler' = "uploading" \/ pendingFileUpload']_vars

\* the display functions ran on a Gemini report
GeminiReportShown == rCall = "updateAnalysisResultsFromReport"

\* the number of issues the ordering of updateIssuesList ranks as sev
RankedAs(issues, sev) ==
    Cardinality({k \in DOMAIN issues :
                    severityOrder(issues[k].severity) = severityOrder(sev)})

\* the summary's count for a severity
SummaryCount(summary, sev) ==
    CASE sev = "high" -> summary.high_severity_issues
      [] sev = "medium" -> summary.medium_severity_issues
      [] sev = "low" -> summary.low_severity_issues

\* C29: for every issue list the summary's count of high, medium and low
\* issues (validateIssueCounts) is the number of issues the ordering ranks
\* as that severity and the number the grading counts as that severity,
\* and over the security issues it is the number the security score counts
C29_SeverityClassifiedConsistently ==
    GeminiReportShown =>
        \A sev \in Severities :
            /\ SummaryCount(rOutput.summary, sev) = RankedAs(rOutput.issues, sev)
            /\ SummaryCount(rOutput.summary, sev)
                   = CountOf(rInput.issues, IssueTypes, sev)
            /\ Count(SelectSeq(rInput.issues, LAMBDA i : i.type = "security"), sev)
                   = CountOf(rInput.issues, {"security"}, sev)

\* the part of C29 the code keeps: the classifications agree on every list
\* whose severities are spelled in lower case
C29_ConsistentForLowerCase ==
    (GeminiReportShown
        /\ \A k \in DOMAIN rInput.issues : rInput.issues[k].severity \in Severities)
    => \A sev \in Severities :
            /\ SummaryCount(rOutput.summary, sev) = RankedAs(rOutput.issues, sev)
            /\ SummaryCount(rOutput.summary, sev)
                   = CountOf(rInput.issues, IssueTypes, sev)

\* the chart has percentages to show
ChartDrawn == rCall = "updateIssueDistributionChart" /\ rInput.issues # <<>>

\* C30: for every non-empty issue list the high, medium and low
\* percentages of updateIssueDistributionChart are each within 0..100 and
\* sum to exactly 100
C30_PercentagesInRangeAndSumTo100 ==
    ChartDrawn =>
        /\ rOutput.high \in 0..100
        /\ rOutput.medium \in 0..100
        /\ rOutput.low \in 0..100
        /\ rOutput.high + rOutput.medium + rOutput.low = 100

\* the part of C30 the code keeps: the sum is 100 and the high and medium
\* percentages are within range
C30_SumIs100 ==
    ChartDrawn =>
        /\ rOutput.high \in 0..100
        /\ rOutput.medium \in 0..100
        /\ rOutput.low \in -1..100
        /\ rOutput.high + rOutput.medium + rOutput.low = 100
====
